---- MODULE Spec2Model ----
(***************************************************************************)
(* A model of cubecoachAI: the stopwatch (timer.js, class Timer), the      *)
(* solve recorder and phase segmenter (solve-parser.js, class SolveParser, *)
(* kept in src/unnamed/part_001) and the application controller (app.js,   *)
(* class CubeCoachApp) with its cube-lifecycle state machine.              *)
(*                                                                         *)
(* JavaScript objects are records.  Every method is an operator from the   *)
(* object (and the clock reading) to the object after the call, so that    *)
(* the same translation of a method serves the specification that drives   *)
(* the object alone and the one that drives it through the application.    *)
(*                                                                         *)
(* Time: performance.now() and Date.now() are read from one integer        *)
(* millisecond clock `now` that never goes backwards.  It starts above 0:  *)
(* both readings are positive by the time a handler can run.               *)
(***************************************************************************)
EXTENDS Integers, Sequences, FiniteSets, TLC

VARIABLES
    now,         \* the clock: performance.now() / Date.now()
    timer,       \* the Timer object
    intervals,   \* ids of the setInterval callbacks the browser holds
    timeouts,    \* the setTimeout callbacks the browser holds: [id, due]
    app,         \* the CubeCoachApp object's own fields
    solveParser, \* the SolveParser object and the solve objects it refers to
    last,        \* the handler that ran last, what it returned, where it started
    runMs,       \* observer: ms the timer has run unpaused since its last start
    phIn,        \* PhaseSpec: the recorded move list handed to analyzePhases
    phOut,       \* PhaseSpec: the phases analyzePhases produced, once it ran
    fmt,         \* FormatSpec: the value given to formatTime, its text, the text parsed
    gan,         \* the GANBluetooth object's packet-handling fields
    packetLog,   \* observer: the packets handled so far, each with what was emitted
    gocube       \* the GoCubeBluetooth object's motion-detection fields

vars == <<now, timer, intervals, timeouts, app, solveParser, last, runMs, phIn, phOut, fmt,
          gan, packetLog, gocube>>

(***************************************************************************)
(* JavaScript values                                                       *)
(***************************************************************************)

\* null, where the other values of the field are numbers >= 0
Null == -1

\* JavaScript truthiness of a number-or-null: null and 0 are falsy
Truthy(x) == x # Null /\ x # 0

\* the values handed to formatTime: an integer number, NaN, undefined
Num(n) == [kind |-> "int", n |-> n]

NaN == [kind |-> "NaN", n |-> 0]

Undefined == [kind |-> "undefined", n |-> 0]

\* ToNumber: undefined becomes NaN
ToNumber(v) == IF v.kind = "undefined" THEN NaN ELSE v

\* v < k for an integer k: false when v is NaN or undefined
lessThan(v, k) == ToNumber(v).kind = "int" /\ v.n < k

\* Math.floor(v / k) for an integer k > 0 and v >= 0: NaN stays NaN
floorDiv(v, k) == IF ToNumber(v).kind = "int" THEN Num(v.n \div k) ELSE NaN

\* v % k for an integer k > 0 and v >= 0: NaN stays NaN
remainder(v, k) == IF ToNumber(v).kind = "int" THEN Num(v.n % k) ELSE NaN

Min(a, b) == IF a <= b THEN a ELSE b

Max(a, b) == IF a >= b THEN a ELSE b

\* Array.prototype.slice(start, end) on a 1-based sequence, with JavaScript's
\* 0-based, end-exclusive indices; a negative index counts from the end
slice(s, start, end) ==
    LET n == Len(s)
        a == IF start < 0 THEN Max(n + start, 0) ELSE Min(start, n)
        b == IF end < 0 THEN Max(n + end, 0) ELSE Min(end, n)
    IN  IF a < b THEN SubSeq(s, a + 1, b) ELSE <<>>

\* what is remembered of the handler that ran last: its name, the state it was
\* called in, and its value: what a method of the timer or the parser returned
\* (falsy tells false/null/undefined from the rest), the event a handler was given
Ret(op, from, falsy, value) ==
    [op |-> op, from |-> from, falsy |-> falsy, value |-> value]

\* the handle setTimeout/setInterval returns: a positive id in use nowhere else
\* (the browser never hands out an id twice; ids still held are avoided)
FreshId(used) ==
    CHOOSE i \in 1..(Cardinality(used) + 1) :
        i \notin used /\ \A j \in 1..(i - 1) : j \in used

(***************************************************************************)
(* Timer (timer.js)                                                        *)
(***************************************************************************)

\* the `new Timer()` object
TimerInit ==
    [startTime |-> Null, endTime |-> Null, isRunning |-> FALSE,
     isPaused |-> FALSE, currentTime |-> 0, intervalId |-> Null]

\* Timer.updateCurrentTime
updateCurrentTime(t, clock) ==
    IF Truthy(t.startTime)
    THEN [t EXCEPT !.currentTime =
              (IF Truthy(t.endTime) THEN t.endTime ELSE clock) - t.startTime]
    ELSE t

\* the `if (this.intervalId) { clearInterval(this.intervalId); this.intervalId = null }`
\* block of stop, pause and reset: the timer and the browser's intervals after it
clearTick(t, iv) ==
    IF Truthy(t.intervalId)
    THEN [t |-> [t EXCEPT !.intervalId = Null], iv |-> iv \ {t.intervalId}]
    ELSE [t |-> t, iv |-> iv]

\* Timer.start without its `if (this.isRunning) return false` guard
Timer_start_restart(t, iv, clock, id) ==
    [t |-> [t EXCEPT !.startTime = clock, !.endTime = Null, !.isRunning = TRUE,
                     !.isPaused = FALSE, !.currentTime = 0, !.intervalId = id],
     iv |-> iv \cup {id}, falsy |-> FALSE, value |-> TRUE]

\* Timer.start
Timer_start(t, iv, clock, id) ==
    IF t.isRunning
    THEN [t |-> t, iv |-> iv, falsy |-> TRUE, value |-> FALSE]
    ELSE [t |-> [t EXCEPT !.startTime = clock, !.endTime = Null,
                          !.isRunning = TRUE, !.isPaused = FALSE,
                          !.currentTime = 0, !.intervalId = id],
          iv |-> iv \cup {id}, falsy |-> FALSE, value |-> TRUE]

\* Timer.stop
Timer_stop(t, iv, clock) ==
    IF ~t.isRunning
    THEN [t |-> t, iv |-> iv, falsy |-> TRUE, value |-> FALSE]
    ELSE LET t1 == [t EXCEPT !.endTime = clock, !.isRunning = FALSE,
                             !.isPaused = FALSE]
             c  == clearTick(t1, iv)
             t2 == updateCurrentTime(c.t, clock)
         IN  [t |-> t2, iv |-> c.iv, falsy |-> FALSE,
              value |-> [startTime |-> t2.startTime, endTime |-> t2.endTime,
                         totalTime |-> t2.currentTime]]

\* Timer.pause without its clearInterval block
Timer_pause_keepsTicking(t, iv, clock) ==
    IF ~t.isRunning \/ t.isPaused
    THEN [t |-> t, iv |-> iv, falsy |-> TRUE, value |-> FALSE]
    ELSE [t |-> [t EXCEPT !.isPaused = TRUE, !.endTime = clock],
          iv |-> iv, falsy |-> FALSE, value |-> TRUE]

\* Timer.pause
Timer_pause(t, iv, clock) ==
    IF ~t.isRunning \/ t.isPaused
    THEN [t |-> t, iv |-> iv, falsy |-> TRUE, value |-> FALSE]
    ELSE LET c == clearTick([t EXCEPT !.isPaused = TRUE, !.endTime = clock], iv)
         IN  [t |-> c.t, iv |-> c.iv, falsy |-> FALSE, value |-> TRUE]

\* Timer.resume measuring the pause from startTime instead of endTime
Timer_resume_fromStartTime(t, iv, clock, id) ==
    IF ~t.isRunning \/ ~t.isPaused
    THEN [t |-> t, iv |-> iv, falsy |-> TRUE, value |-> FALSE]
    ELSE LET pauseDuration == clock - t.startTime
         IN  [t |-> [t EXCEPT !.startTime = t.startTime + pauseDuration,
                              !.endTime = Null, !.isPaused = FALSE,
                              !.intervalId = id],
              iv |-> iv \cup {id}, falsy |-> FALSE, value |-> TRUE]

\* Timer.resume
Timer_resume(t, iv, clock, id) ==
    IF ~t.isRunning \/ ~t.isPaused
    THEN [t |-> t, iv |-> iv, falsy |-> TRUE, value |-> FALSE]
    ELSE LET pauseDuration == clock - t.endTime
         IN  [t |-> [t EXCEPT !.startTime = t.startTime + pauseDuration,
                              !.endTime = Null, !.isPaused = FALSE,
                              !.intervalId = id],
              iv |-> iv \cup {id}, falsy |-> FALSE, value |-> TRUE]

\* Timer.reset
Timer_reset(t, iv) ==
    LET c == clearTick([t EXCEPT !.startTime = Null, !.endTime = Null,
                                 !.isRunning = FALSE, !.isPaused = FALSE,
                                 !.currentTime = 0], iv)
    IN  [t |-> c.t, iv |-> c.iv, falsy |-> FALSE, value |-> TRUE]

\* Timer.split: getCurrentTime() refreshes currentTime on the way
Timer_split(t, iv, clock) ==
    IF ~t.isRunning
    THEN [t |-> t, iv |-> iv, falsy |-> TRUE, value |-> Null]
    ELSE LET t1 == updateCurrentTime(t, clock)
         IN  [t |-> t1, iv |-> iv, falsy |-> FALSE,
              value |-> [time |-> t1.currentTime, timestamp |-> clock]]

\* Timer.getCurrentTime: refreshes currentTime and returns it
getCurrentTime(t, iv, clock) ==
    LET t1 == updateCurrentTime(t, clock)
    IN  [t |-> t1, iv |-> iv, falsy |-> FALSE, value |-> t1.currentTime]

\* Timer.getElapsedTime: a read, no field changes
getElapsedTime(t, clock) ==
    IF ~Truthy(t.startTime) THEN 0
    ELSE (IF Truthy(t.endTime) THEN t.endTime ELSE clock) - t.startTime

\* the setInterval callback of start and resume: refresh currentTime, emit 'tick'
tickCallback(t, clock) == updateCurrentTime(t, clock)

(***************************************************************************)
(* Timer.formatTime and Timer.parseTime.  Strings are sequences of         *)
(* characters.  For an integer number of milliseconds the divisions of     *)
(* formatTime are exact in integers: milliseconds / 1000 is an integer or  *)
(* at least 0.001 from one, far more than a double's rounding error.       *)
(***************************************************************************)

Digit(d) == <<"0", "1", "2", "3", "4", "5", "6", "7", "8", "9">>[d + 1]

isDigit(c) == \E d \in 0..9 : Digit(d) = c

\* Number.prototype.toString of an integer >= 0
RECURSIVE digits(_)
digits(n) == IF n < 10 THEN <<Digit(n)>> ELSE digits(n \div 10) \o <<Digit(n % 10)>>

\* Number.prototype.toString
toString(v) == IF v.kind = "int" THEN digits(v.n) ELSE <<"N", "a", "N">>

\* String.prototype.padStart(targetLength, c)
padStart(cs, targetLength, c) ==
    IF Len(cs) >= targetLength THEN cs
    ELSE [i \in 1..(targetLength - Len(cs)) |-> c] \o cs

\* formatTime with the milliseconds padded to two characters
formatTime_shortMs(milliseconds) ==
    IF lessThan(milliseconds, 0) THEN <<"0", "0", ":", "0", "0", ".", "0", "0", "0">>
    ELSE padStart(toString(floorDiv(milliseconds, 60000)), 2, "0") \o <<":">>
         \o padStart(toString(remainder(floorDiv(milliseconds, 1000), 60)), 2, "0") \o <<".">>
         \o padStart(toString(remainder(milliseconds, 1000)), 2, "0")

\* Timer.formatTime
formatTime(milliseconds) ==
    IF lessThan(milliseconds, 0) THEN <<"0", "0", ":", "0", "0", ".", "0", "0", "0">>
    ELSE LET totalSeconds == floorDiv(milliseconds, 1000)
             minutes == floorDiv(milliseconds, 60000)
             seconds == remainder(totalSeconds, 60)
             ms == remainder(milliseconds, 1000)
             formattedMinutes == padStart(toString(minutes), 2, "0")
             formattedSeconds == padStart(toString(seconds), 2, "0")
             formattedMs == padStart(toString(ms), 3, "0")
         IN  formattedMinutes \o <<":">> \o formattedSeconds \o <<".">> \o formattedMs

\* parseInt(cs, 10) of a string of decimal digits
RECURSIVE parseInt(_)
parseInt(cs) ==
    IF cs = <<>> THEN 0
    ELSE 10 * parseInt(SubSeq(cs, 1, Len(cs) - 1))
         + (CHOOSE d \in 0..9 : Digit(d) = cs[Len(cs)])

\* timeString.match(/^(\d{2}):(\d{2})\.(\d{3})$/) is not null
matchesTime(timeString) ==
    /\ Len(timeString) = 9
    /\ \A i \in {1, 2, 4, 5, 7, 8, 9} : isDigit(timeString[i])
    /\ timeString[3] = ":"
    /\ timeString[6] = "."

\* parseTime with the minutes taken for seconds
parseTime_minutesAsSeconds(timeString) ==
    IF ~matchesTime(timeString) THEN 0
    ELSE (parseInt(SubSeq(timeString, 1, 2)) + parseInt(SubSeq(timeString, 4, 5))) * 1000
         + parseInt(SubSeq(timeString, 7, 9))

\* Timer.parseTime
parseTime(timeString) ==
    IF ~matchesTime(timeString) THEN 0
    ELSE LET minutes == parseInt(SubSeq(timeString, 1, 2))
             seconds == parseInt(SubSeq(timeString, 4, 5))
             milliseconds == parseInt(SubSeq(timeString, 7, 9))
         IN  (minutes * 60 + seconds) * 1000 + milliseconds

\* the observer of unpaused running time: 0 at a start, kept otherwise
RunMsAfter(before, after) ==
    IF ~before.isRunning /\ after.isRunning THEN 0 ELSE runMs

(***************************************************************************)
(* Strings.  A move notation is a TLA+ string; where the code looks inside *)
(* one (startsWith, includes, toLowerCase) the string is spelled out as    *)
(* its sequence of characters.                                             *)
(***************************************************************************)

\* the characters of every token the code handles: the 18 notations of
\* moveMap, 'Unknown', and the M/y tokens of the PLL pattern strings
Spelling ==
    ("U" :> <<"U">>) @@ ("U'" :> <<"U", "'">>) @@ ("U2" :> <<"U", "2">>) @@
    ("D" :> <<"D">>) @@ ("D'" :> <<"D", "'">>) @@ ("D2" :> <<"D", "2">>) @@
    ("R" :> <<"R">>) @@ ("R'" :> <<"R", "'">>) @@ ("R2" :> <<"R", "2">>) @@
    ("L" :> <<"L">>) @@ ("L'" :> <<"L", "'">>) @@ ("L2" :> <<"L", "2">>) @@
    ("F" :> <<"F">>) @@ ("F'" :> <<"F", "'">>) @@ ("F2" :> <<"F", "2">>) @@
    ("B" :> <<"B">>) @@ ("B'" :> <<"B", "'">>) @@ ("B2" :> <<"B", "2">>) @@
    ("M" :> <<"M">>) @@ ("M'" :> <<"M", "'">>) @@ ("M2" :> <<"M", "2">>) @@
    ("y" :> <<"y">>) @@ ("Unknown" :> <<"U", "n", "k", "n", "o", "w", "n">>)

\* String.prototype.toLowerCase on one character
toLowerCase(c) ==
    CASE c = "U" -> "u" [] c = "D" -> "d" [] c = "R" -> "r" [] c = "L" -> "l"
      [] c = "F" -> "f" [] c = "B" -> "b" [] c = "M" -> "m" [] OTHER -> c

\* Array.prototype.join(' ') of tokens, as characters
RECURSIVE join(_)
join(tokens) ==
    IF tokens = <<>> THEN <<>>
    ELSE IF Len(tokens) = 1 THEN Spelling[tokens[1]]
    ELSE Spelling[tokens[1]] \o <<" ">> \o join(Tail(tokens))

\* String.prototype.includes
includes(hay, needle) ==
    \E i \in 0..(Len(hay) - Len(needle)) : SubSeq(hay, i + 1, i + Len(needle)) = needle

\* String.prototype.startsWith('U') on a notation
startsWithU(notation) == Spelling[notation][1] = "U"

\* .replace(/\s+/g, ' ') where two blanks are adjacent somewhere
RECURSIVE collapseRuns(_)
collapseRuns(cs) ==
    IF Len(cs) < 2 THEN cs
    ELSE IF cs[1] = " " /\ cs[2] = " " THEN collapseRuns(Tail(cs))
    ELSE <<cs[1]>> \o collapseRuns(Tail(cs))

\* .replace(/\s+/g, ' '): every run of blanks becomes one blank
collapseBlanks(cs) ==
    IF \E i \in 1..(Len(cs) - 1) : cs[i] = " " /\ cs[i + 1] = " "
    THEN collapseRuns(cs) ELSE cs

\* .trim(), after collapseBlanks left at most one blank at either end
trim(cs) ==
    LET a == IF cs # <<>> /\ cs[1] = " " THEN Tail(cs) ELSE cs
    IN  IF a # <<>> /\ a[Len(a)] = " " THEN SubSeq(a, 1, Len(a) - 1) ELSE a

\* SolveParser.normalizeMoveSequence
normalizeMoveSequence(cs) ==
    LET t == trim(collapseBlanks(cs))
    IN  [i \in 1..Len(t) |-> toLowerCase(t[i])]

\* SolveParser.sequenceContainsPattern
sequenceContainsPattern(sequence, pattern) ==
    includes(normalizeMoveSequence(sequence), normalizeMoveSequence(pattern))

(***************************************************************************)
(* SolveParser (solve-parser.js, in src/unnamed/part_001)                  *)
(*                                                                         *)
(* currentSolve and the entries of solveHistory are references to solve    *)
(* objects: indices into `objs`, 0 for null.  A solve that is finalized    *)
(* stays reachable from solveHistory; an unfinalized one is only reachable *)
(* from currentSolve and is dropped from `objs` when that reference goes.  *)
(***************************************************************************)

\* initializeOLLPatterns, in the insertion order Object.entries follows;
\* each pattern string is written as its blank-separated tokens
ollPatterns ==
    <<
        [name |-> "OLL 21",
         patterns |-> << <<"R", "U", "R'", "U", "R", "U2", "R'">> >>],
        [name |-> "OLL 22",
         patterns |-> << <<"R", "U2", "R2", "U'", "R2", "U'", "R2", "U2", "R">> >>],
        [name |-> "OLL 23",
         patterns |-> << <<"R2", "D", "R'", "U2", "R", "D'", "R'", "U2", "R'">> >>],
        [name |-> "OLL 24",
         patterns |-> << <<"R", "U", "R'", "U'", "R'", "F", "R", "F'">> >>],
        [name |-> "OLL 25",
         patterns |-> << <<"F'", "R", "U", "R'", "U'", "R'", "F", "R">> >>],
        [name |-> "OLL 26",
         patterns |-> << <<"R", "U2", "R'", "U'", "R", "U'", "R'">> >>],
        [name |-> "OLL 27",
         patterns |-> << <<"R", "U", "R'", "U", "R", "U2", "R'">> >>]
    >>

\* initializePLLPatterns
pllPatterns ==
    <<
        [name |-> "T Perm",
         patterns |-> << <<"R", "U", "R'", "F'", "R", "U", "R'", "U'", "R'", "F", "R2", "U'", "R'">> >>],
        [name |-> "A Perm",
         patterns |-> << <<"R'", "F", "R'", "B2", "R", "F'", "R'", "B2", "R2">> >>],
        [name |-> "U Perm",
         patterns |-> << <<"R", "U'", "R", "F'", "R2", "U'", "R", "U'", "R", "U", "R'", "F", "R", "U", "R'", "F">> >>],
        [name |-> "H Perm",
         patterns |-> << <<"M2", "U", "M2", "U2", "M2", "U", "M2">> >>],
        [name |-> "Z Perm",
         patterns |-> << <<"M'", "U", "M2", "U", "M2", "U", "M'", "U2", "M2">> >>],
        [name |-> "Y Perm",
         patterns |-> << <<"R", "U'", "R'", "F", "R", "F'", "R", "U", "R'", "F'", "R", "U", "R'", "U'", "F">> >>],
        [name |-> "V Perm",
         patterns |-> << <<"R'", "U", "R'", "U'", "y", "R'", "F'", "R2", "U'", "R'", "U", "R'", "F", "R", "F">> >>],
        [name |-> "N Perm",
         patterns |-> << <<"R", "U", "R'", "F'", "R", "U", "R'", "U'", "R'", "F", "R2", "U'", "R'", "U2", "R", "U'", "R'">> >>]
    >>

\* the endingPatterns of looksLikePhaseEnd
endingPatterns ==
    << <<"R", "U", "R'">>, <<"R'", "U'", "R">>, <<"F", "R", "F'">>,
       <<"F'", "L", "F">>, <<"U", "R", "U'">>, <<"U'", "R'", "U">> >>

\* the `new SolveParser()` object
SolveParserInit ==
    [moves |-> <<>>, currentSolve |-> 0, solveHistory |-> <<>>,
     isRecording |-> FALSE, startTime |-> Null, objs |-> <<>>]

\* the phases object startSolve creates
EmptyPhases ==
    LET e == [moves |-> <<>>, time |-> 0, moveCount |-> 0]
        a == [moves |-> <<>>, time |-> 0, moveCount |-> 0, algorithm |-> ""]
    IN  [cross |-> e,
         f2l |-> [pair1 |-> e, pair2 |-> e, pair3 |-> e, pair4 |-> e],
         oll |-> a, pll |-> a]

\* the solve objects still referenced once currentSolve lets go of its object
Collect(p) ==
    IF p.currentSolve # 0 /\ \A i \in 1..Len(p.solveHistory) :
                                  p.solveHistory[i] # p.currentSolve
    THEN SubSeq(p.objs, 1, Len(p.objs) - 1)
    ELSE p.objs

\* SolveParser.startSolve
SolveParser_startSolve(p, scramble, clock) ==
    LET kept == Collect(p)
        solve == [id |-> clock, scramble |-> scramble, startTime |-> clock,
                  endTime |-> Null, totalTime |-> 0, moves |-> <<>>,
                  phases |-> EmptyPhases, totalMoves |-> 0]
    IN  [p EXCEPT !.moves = <<>>, !.isRecording = TRUE, !.startTime = clock,
                  !.objs = Append(kept, solve), !.currentSolve = Len(kept) + 1]

\* the move object addMove builds from a moveData event
MoveOf(p, moveData) ==
    [notation |-> moveData.move, timestamp |-> moveData.timestamp,
     duration |-> moveData.duration,
     relativeTime |-> moveData.timestamp - p.startTime]

\* SolveParser.addMove without its `!this.isRecording` guard
SolveParser_addMove_unguarded(p, moveData) ==
    IF p.currentSolve = 0 THEN p
    ELSE [p EXCEPT !.moves = Append(@, MoveOf(p, moveData)),
                   !.objs[p.currentSolve].moves = Append(@, MoveOf(p, moveData))]

\* SolveParser.addMove
SolveParser_addMove(p, moveData) ==
    IF ~p.isRecording \/ p.currentSolve = 0 THEN p
    ELSE [p EXCEPT !.moves = Append(@, MoveOf(p, moveData)),
                   !.objs[p.currentSolve].moves = Append(@, MoveOf(p, moveData))]

\* the notations of a list of move objects: moves.map(m => m.notation)
Notations(ms) == [i \in 1..Len(ms) |-> ms[i].notation]

\* SolveParser.detectCrossEnd
detectCrossEnd(moves) ==
    LET hits == {i \in 0..(Min(Len(moves), 12) - 1) :
                     startsWithU(moves[i + 1].notation)}
    IN  IF hits # {}
        THEN Max(0, (CHOOSE i \in hits : \A j \in hits : i <= j) - 1)
        ELSE Min(7, Len(moves) - 1)

\* the for loop of detectF2LEnd from index i on: the index it returns, if any
RECURSIVE f2lLoop(_, _, _, _)
f2lLoop(moves, i, consecutiveNonU, lastNonUIndex) ==
    IF i >= Len(moves) THEN [found |-> FALSE, index |-> 0]
    ELSE IF ~startsWithU(moves[i + 1].notation)
         THEN f2lLoop(moves, i + 1, consecutiveNonU + 1, i)
         ELSE IF consecutiveNonU >= 3
              THEN [found |-> TRUE, index |-> lastNonUIndex]
              ELSE f2lLoop(moves, i + 1, 0, lastNonUIndex)

\* SolveParser.detectF2LEnd; Math.floor(n * 0.6) is (6n) div 10 for every n >= 0
detectF2LEnd(moves, startIndex) ==
    LET r == f2lLoop(moves, startIndex, 0, startIndex)
        estimatedF2LEnd == (Len(moves) * 6) \div 10
    IN  IF r.found THEN r.index ELSE Min(estimatedF2LEnd, Len(moves) - 8)

\* SolveParser.looksLikePhaseEnd
looksLikePhaseEnd(moves) ==
    IF Len(moves) < 3 THEN FALSE
    ELSE LET lastThree == join(Notations(slice(moves, -3, Len(moves))))
         IN  \E k \in 1..Len(endingPatterns) :
                 includes(lastThree, join(endingPatterns[k]))

\* SolveParser.detectOLLEnd
detectOLLEnd(moves, startIndex) ==
    LET maxOLLMoves == 15
        endIndex == Min(startIndex + maxOLLMoves, Len(moves) - 4)
        hits == {i \in (startIndex + 3)..(endIndex - 1) :
                     looksLikePhaseEnd(slice(moves, startIndex, i + 1))}
    IN  IF hits # {} THEN CHOOSE i \in hits : \A j \in hits : i <= j
        ELSE endIndex

\* SolveParser.analyzePhase: the phases object after analysing one phase
analyzePhase(phases, phaseName, moves) ==
    IF Len(moves) = 0 THEN phases
    ELSE LET phaseTime == moves[Len(moves)].relativeTime - moves[1].relativeTime
             e == [moves |-> Notations(moves), time |-> phaseTime,
                   moveCount |-> Len(moves)]
             a == [moves |-> Notations(moves), time |-> phaseTime,
                   moveCount |-> Len(moves), algorithm |-> ""]
         IN  CASE phaseName = "cross" -> [phases EXCEPT !.cross = e]
               [] phaseName = "f2l_pair1" -> [phases EXCEPT !.f2l.pair1 = e]
               [] phaseName = "f2l_pair2" -> [phases EXCEPT !.f2l.pair2 = e]
               [] phaseName = "f2l_pair3" -> [phases EXCEPT !.f2l.pair3 = e]
               [] phaseName = "f2l_pair4" -> [phases EXCEPT !.f2l.pair4 = e]
               [] phaseName = "oll" -> [phases EXCEPT !.oll = a]
               [] phaseName = "pll" -> [phases EXCEPT !.pll = a]
               [] OTHER -> phases

\* SolveParser.analyzeF2LPairs
analyzeF2LPairs(phases, f2lMoves) ==
    IF Len(f2lMoves) = 0 THEN phases
    ELSE LET movesPerPair == (Len(f2lMoves) + 3) \div 4
             pairMoves(i) == slice(f2lMoves, i * movesPerPair,
                                   Min((i + 1) * movesPerPair, Len(f2lMoves)))
             p1 == analyzePhase(phases, "f2l_pair1", pairMoves(0))
             p2 == analyzePhase(p1, "f2l_pair2", pairMoves(1))
             p3 == analyzePhase(p2, "f2l_pair3", pairMoves(2))
         IN  analyzePhase(p3, "f2l_pair4", pairMoves(3))

\* the name loop of detectOLLAlgorithm / detectPLLAlgorithm: the first entry
\* of the table with a pattern the move sequence contains, else `unknown`
detectAlgorithm(table, moves, unknown) ==
    LET moveSequence == join(Notations(moves))
        hits == {k \in 1..Len(table) :
                     \E q \in 1..Len(table[k].patterns) :
                         sequenceContainsPattern(moveSequence,
                                                 join(table[k].patterns[q]))}
    IN  IF hits # {} THEN table[CHOOSE k \in hits : \A j \in hits : k <= j].name
        ELSE unknown

\* SolveParser.detectOLLAlgorithm
detectOLLAlgorithm(phases, moves) ==
    [phases EXCEPT !.oll.algorithm = detectAlgorithm(ollPatterns, moves, "Unknown OLL")]

\* SolveParser.detectPLLAlgorithm
detectPLLAlgorithm(phases, moves) ==
    [phases EXCEPT !.pll.algorithm = detectAlgorithm(pllPatterns, moves, "Unknown PLL")]

\* SolveParser.analyzePhases, on this.moves and the current solve's phases
analyzePhases(moves, phases) ==
    IF Len(moves) = 0 THEN phases
    ELSE LET crossEndIndex == detectCrossEnd(moves)
             ph1 == analyzePhase(phases, "cross", slice(moves, 0, crossEndIndex + 1))
             phaseIndex1 == crossEndIndex + 1
             f2lEndIndex == detectF2LEnd(moves, phaseIndex1)
             f2lMoves == slice(moves, phaseIndex1, f2lEndIndex + 1)
             ph2 == analyzeF2LPairs(ph1, f2lMoves)
             phaseIndex2 == f2lEndIndex + 1
             ollEndIndex == detectOLLEnd(moves, phaseIndex2)
             ollMoves == slice(moves, phaseIndex2, ollEndIndex + 1)
             ph3 == detectOLLAlgorithm(analyzePhase(ph2, "oll", ollMoves), ollMoves)
             phaseIndex3 == ollEndIndex + 1
             pllMoves == slice(moves, phaseIndex3, Len(moves))
         IN  detectPLLAlgorithm(analyzePhase(ph3, "pll", pllMoves), pllMoves)

\* SolveParser.stopSolve: the parser after the call and what the call returns
\* (tps, a float computed from totalMoves and totalTime, is left out)
SolveParser_stopSolve(p, clock) ==
    IF ~p.isRecording \/ p.currentSolve = 0
    THEN [p |-> p, falsy |-> TRUE, value |-> 0]
    ELSE LET c == p.currentSolve
             solve == [p.objs[c] EXCEPT
                          !.endTime = clock,
                          !.totalTime = clock - p.objs[c].startTime,
                          !.totalMoves = Len(p.moves),
                          !.phases = analyzePhases(p.moves, @)]
         IN  [p |-> [p EXCEPT !.isRecording = FALSE, !.objs[c] = solve,
                              !.solveHistory = Append(@, c)],
              falsy |-> FALSE, value |-> c]

\* SolveParser.resetSolve
SolveParser_resetSolve(p) ==
    [p EXCEPT !.moves = <<>>, !.currentSolve = 0, !.isRecording = FALSE,
              !.startTime = Null, !.objs = Collect(p)]

(***************************************************************************)
(* GANBluetooth (gan-bluetooth.js): the events the application subscribes  *)
(* to.  Each is emitted, and handled to the end, inside the notification   *)
(* that carried it, so its timestamp is the clock reading of that moment.  *)
(***************************************************************************)

\* the moveMap of parseMoveData: move byte 0x01..0x12 to notation
moveMap ==
    <<"U", "U'", "U2", "D", "D'", "D2", "R", "R'", "R2",
      "L", "L'", "L2", "F", "F'", "F2", "B", "B'", "B2">>

\* GANBluetooth.parseMoveData on the 4 bytes of a 0x02 message
parseMoveData(data, clock) ==
    [type |-> "move", timestamp |-> clock,
     move |-> IF data[2] \in 1..Len(moveMap) THEN moveMap[data[2]] ELSE "Unknown",
     duration |-> data[3] * 256 + data[4]]

\* GANBluetooth.parseCubeState on the 6 bytes of a 0x01 message
parseCubeState(data, clock) ==
    [type |-> "cubeState", timestamp |-> clock,
     scrambled |-> (data[2] = 1), solved |-> (data[3] = 1),
     battery |-> data[4], temperature |-> data[5]]

(***************************************************************************)
(* GANBluetooth packet handling (gan-bluetooth.js, the class the           *)
(* application constructs).  A packet is the sequence of its bytes.  An    *)
(* emitted event is [event, data]: the event's name and its payload, a     *)
(* record with exactly the fields the code gives it.  Confidence is in     *)
(* hundredths (100 is 1.0).  Console output, the packet signature (it is   *)
(* only logged) and the window.* debugging switches are left out.          *)
(***************************************************************************)

\* null, where the other values of the field are packets
NoBytes == <<Null>>

\* null, where the other values are { data, signature, timestamp }
NoPacket == [data |-> NoBytes, timestamp |-> Null]

\* the fields the constructor sets that packet handling reads and writes
GANInit ==
    [isConnected |-> TRUE, dataBuffer |-> <<>>, lastDataTime |-> Null,
     lastDataBytes |-> NoBytes, lastMovePacket |-> NoPacket]

Emit(event, data) == [event |-> event, data |-> data]

arraysEqual(a, b) == a = b

statusPatterns == << <<0, 0>>, <<255, 255>>, <<1, 0>>, <<2, 0>> >>

\* couldBeMove without the 200 ms rule
couldBeMove_noRateLimit(g, data, clock) ==
    LET g1 == [g EXCEPT !.lastDataTime = clock]
    IN  IF g1.lastDataBytes # NoBytes /\ arraysEqual(data, g1.lastDataBytes)
        THEN [g |-> g1, value |-> FALSE]
        ELSE IF Len(data) < 3 THEN [g |-> g1, value |-> FALSE]
        ELSE IF \E i \in 1..Len(statusPatterns) :
                    SubSeq(data, 1, 2) = statusPatterns[i]
        THEN [g |-> g1, value |-> FALSE]
        ELSE [g |-> [g1 EXCEPT !.lastDataBytes = data], value |-> TRUE]

\* GANBluetooth.couldBeMove: the object after the call and the value returned
couldBeMove(g, data, clock) ==
    IF Truthy(g.lastDataTime) /\ clock - g.lastDataTime < 200
    THEN [g |-> [g EXCEPT !.lastDataTime = clock], value |-> FALSE]
    ELSE LET g1 == [g EXCEPT !.lastDataTime = clock]
         IN  IF g1.lastDataBytes # NoBytes /\ arraysEqual(data, g1.lastDataBytes)
             THEN [g |-> g1, value |-> FALSE]
             ELSE IF Len(data) < 3 THEN [g |-> g1, value |-> FALSE]
             ELSE IF \E i \in 1..Len(statusPatterns) :
                         Len(data) >= Len(statusPatterns[i])
                         /\ SubSeq(data, 1, Len(statusPatterns[i])) = statusPatterns[i]
             THEN [g |-> g1, value |-> FALSE]
             ELSE [g |-> [g1 EXCEPT !.lastDataBytes = data], value |-> TRUE]

\* GANBluetooth.analyzePacketDifferences: the positions that differ and, of
\* those, the ones whose bytes differ by more than 16
analyzePacketDifferences(packet1, packet2) ==
    LET changes == {i \in 1..Min(Len(packet1), Len(packet2)) : packet1[i] # packet2[i]}
        delta(i) == packet2[i] - packet1[i]
    IN  [totalChanges |-> Cardinality(changes),
         significantChanges |->
             Cardinality({i \in changes : (IF delta(i) < 0 THEN -delta(i) ELSE delta(i)) > 16})]

\* GANBluetooth.guessMoveFromPattern: a notation, or "" for null
guessMoveFromPattern(differences) ==
    IF differences.totalChanges >= 5 THEN "U"
    ELSE IF differences.totalChanges >= 3 THEN "U'"
    ELSE ""

\* GANBluetooth.decodeMoveFromPacketChange: falsy stands for null
decodeMoveFromPacketChange(previousPacket, currentPacket) ==
    LET differences == analyzePacketDifferences(previousPacket.data, currentPacket.data)
        move == guessMoveFromPattern(differences)
    IN  IF differences.totalChanges = 0
        THEN [falsy |-> TRUE, move |-> "", confidence |-> Null]
        ELSE IF differences.totalChanges >= 3 /\ differences.significantChanges >= 1
        THEN [falsy |-> FALSE,
              move |-> IF move # "" THEN move ELSE "Unknown",
              confidence |-> IF move # "" THEN 70 ELSE 30]
        ELSE [falsy |-> TRUE, move |-> "", confidence |-> Null]

\* GANBluetooth.parseRawMoveData without the 300 ms condition on the time
\* since the stored packet
parseRawMoveData_noSettleTime(g, data, clock) ==
    LET none == [g |-> g, falsy |-> TRUE, value |-> Null]
        current == [data |-> data, timestamp |-> clock]
    IN  IF Len(data) # 20 THEN none
        ELSE IF g.lastMovePacket = NoPacket
        THEN [none EXCEPT !.g = [g EXCEPT !.lastMovePacket = current]]
        ELSE LET isDifferentPacket == ~arraysEqual(data, g.lastMovePacket.data)
                 possibleMove == decodeMoveFromPacketChange(g.lastMovePacket, current)
                 g1 == [g EXCEPT !.lastMovePacket = current]
             IN  IF isDifferentPacket
                 THEN IF ~possibleMove.falsy
                      THEN [g |-> g1, falsy |-> FALSE,
                            value |-> [type |-> "move", move |-> possibleMove.move,
                                       confidence |-> possibleMove.confidence,
                                       timestamp |-> clock]]
                      ELSE [none EXCEPT !.g = g1]
                 ELSE none

\* GANBluetooth.parseRawMoveData: the object after the call and the value
\* returned (falsy stands for null)
parseRawMoveData(g, data, clock) ==
    LET none == [g |-> g, falsy |-> TRUE, value |-> Null]
        current == [data |-> data, timestamp |-> clock]
    IN  IF Len(data) # 20 THEN none
        ELSE IF g.lastMovePacket = NoPacket
        THEN [none EXCEPT !.g = [g EXCEPT !.lastMovePacket = current]]
        ELSE LET timeSinceLastPacket == clock - g.lastMovePacket.timestamp
                 isDifferentPacket == ~arraysEqual(data, g.lastMovePacket.data)
                 possibleMove == decodeMoveFromPacketChange(g.lastMovePacket, current)
                 g1 == [g EXCEPT !.lastMovePacket = current]
             IN  IF isDifferentPacket /\ timeSinceLastPacket > 300
                 THEN IF ~possibleMove.falsy
                      THEN [g |-> g1, falsy |-> FALSE,
                            value |-> [type |-> "move", move |-> possibleMove.move,
                                       confidence |-> possibleMove.confidence,
                                       timestamp |-> clock]]
                      ELSE [none EXCEPT !.g = g1]
                 ELSE none

\* GANBluetooth.parseGyroData on the 12 bytes of a 0x04 message
parseGyroData(data, clock) ==
    [type |-> "gyro", timestamp |-> clock,
     x |-> data[2] * 256 + data[3] - 32768,
     y |-> data[4] * 256 + data[5] - 32768,
     z |-> data[6] * 256 + data[7] - 32768]

\* the while loop of parseDataBuffer from an offset on: the offset it stops
\* at and the events it emits
RECURSIVE parseLoop(_, _, _)
parseLoop(dataBuffer, offset, clock) ==
    LET n == Len(dataBuffer)
        header == dataBuffer[offset + 1]
        message(k) == SubSeq(dataBuffer, offset + 1, offset + k)
        stop == [offset |-> offset, emitted |-> <<>>]
        then(k, events) ==
            LET rest == parseLoop(dataBuffer, offset + k, clock)
            IN  [rest EXCEPT !.emitted = events \o @]
    IN  IF offset >= n THEN stop
        ELSE IF header = 1
        THEN IF n >= offset + 6
             THEN then(6, <<Emit("cubeState", parseCubeState(message(6), clock))>>)
             ELSE stop
        ELSE IF header = 2
        THEN IF n >= offset + 4
             THEN then(4, <<Emit("moveData", parseMoveData(message(4), clock))>>)
             ELSE stop
        ELSE IF header = 3 THEN then(1, <<>>)
        ELSE IF header = 4
        THEN IF n >= offset + 12
             THEN then(12, <<Emit("gyroData", parseGyroData(message(12), clock))>>)
             ELSE stop
        ELSE then(1, <<>>)

\* parseDataBuffer that empties the buffer after every call
parseDataBuffer_dropsPartial(g, clock) ==
    LET r == parseLoop(g.dataBuffer, 0, clock)
    IN  [g |-> [g EXCEPT !.dataBuffer = <<>>], emitted |-> r.emitted]

\* parseDataBuffer without the final slice
parseDataBuffer_keepsConsumed(g, clock) ==
    LET r == parseLoop(g.dataBuffer, 0, clock)
    IN  [g |-> g, emitted |-> r.emitted]

\* GANBluetooth.parseDataBuffer: the object after the call and the events emitted
parseDataBuffer(g, clock) ==
    LET r == parseLoop(g.dataBuffer, 0, clock)
    IN  [g |-> IF r.offset > 0
               THEN [g EXCEPT !.dataBuffer = slice(@, r.offset, Len(@))]
               ELSE g,
         emitted |-> r.emitted]

\* GANBluetooth.handleDataReceived: the object after the call, what couldBeMove
\* returned, and the events emitted in order
handleDataReceived(g, data, clock) ==
    LET raw == Emit("rawData", [bytes |-> data, timestamp |-> clock])
        could == couldBeMove(g, data, clock)
        moveData == IF could.value THEN parseRawMoveData(could.g, data, clock)
                    ELSE [g |-> could.g, falsy |-> TRUE, value |-> Null]
        g1 == [moveData.g EXCEPT !.dataBuffer = @ \o data]
        parsed == parseDataBuffer(g1, clock)
    IN  [g |-> parsed.g, couldBeMove |-> could.value,
         emitted |-> <<raw>>
                     \o (IF moveData.falsy THEN <<>> ELSE <<Emit("moveData", moveData.value)>>)
                     \o parsed.emitted]

\* GANBluetooth.handleDisconnection
handleDisconnection(g) ==
    [g EXCEPT !.isConnected = FALSE, !.dataBuffer = <<>>, !.lastDataTime = Null,
              !.lastDataBytes = NoBytes, !.lastMovePacket = NoPacket]

(***************************************************************************)
(* GoCubeBluetooth packet handling (gocube-bluetooth.js, the second class  *)
(* of the file): the branch for move packets, and those for battery,       *)
(* status and unknown packets.                                             *)
(***************************************************************************)

\* GoCubeBluetooth.identifyPacketType
identifyPacketType(data) ==
    IF Len(data) = 0 THEN "unknown"
    ELSE IF data[1] = 42
    THEN IF Len(data) >= 6
         THEN CASE data[3] = 1 -> "move"
                [] data[3] = 3 -> "accelerometer"
                [] data[3] = 4 -> "battery"
                [] OTHER -> "sensor"
         ELSE "sensor"
    ELSE "unknown"

\* GoCubeBluetooth.parseMoveData: falsy stands for null
GoCube_parseMoveData(data, clock) ==
    IF Len(data) < 3 THEN [falsy |-> TRUE, value |-> Null]
    ELSE LET moveCode == data[2]
         IN  IF moveCode \in 1..Len(moveMap)
             THEN [falsy |-> FALSE,
                   value |-> [type |-> "move", move |-> moveMap[moveCode],
                              timestamp |-> clock, confidence |-> 100]]
             ELSE [falsy |-> TRUE, value |-> Null]

\* GoCubeBluetooth.handleMoveData: the events emitted
GoCube_handleMoveData(data, clock) ==
    LET moveData == GoCube_parseMoveData(data, clock)
    IN  IF moveData.falsy THEN <<>> ELSE <<Emit("move", moveData.value)>>

\* the fields of GoCubeBluetooth that detectMoveFromAcceleration reads and
\* writes, as the constructor sets them; NoSample stands for null
NoSample == [type |-> "none", x |-> 0, y |-> 0, z |-> 0, timestamp |-> Null]

GoCubeInit == [lastAcceleration |-> NoSample, lastMoveDetection |-> Null]

\* Math.abs
abs(n) == IF n < 0 THEN -n ELSE n

\* Math.sqrt of a sum of squares of thousandths of g; the samples are chosen
\* so that every magnitude is a whole number of thousandths
sqrt(n) == CHOOSE r \in 0..10000 : r * r = n

\* the for loop of parseGoCubeSensorData from the character at index i (the
\* code's i is one less): the numbers pushed.  A digit that is the last
\* character is added to currentNumber, and that number is never pushed.
RECURSIVE scanNumbers(_, _, _, _, _)
scanNumbers(data, i, numbers, currentNumber, isNegative) ==
    IF i > Len(data) THEN numbers
    ELSE LET char == data[i]
         IN  IF char = 45
             THEN scanNumbers(data, i + 1, numbers, currentNumber, TRUE)
             ELSE IF char \in 48..57
             THEN scanNumbers(data, i + 1, numbers,
                              Append(currentNumber, Digit(char - 48)), isNegative)
             ELSE IF (char \in {35, 13, 10} \/ i = Len(data)) /\ currentNumber # <<>>
             THEN scanNumbers(data, i + 1,
                              Append(numbers, IF isNegative THEN -parseInt(currentNumber)
                                              ELSE parseInt(currentNumber)),
                              <<>>, FALSE)
             ELSE scanNumbers(data, i + 1, numbers, currentNumber, isNegative)

\* GoCubeBluetooth.parseGoCubeSensorData: falsy stands for null; x, y and z
\* are kept in thousandths of g (the code divides the numbers by 1000.0)
parseGoCubeSensorData(data, clock) ==
    LET numbers == scanNumbers(data, 3, <<>>, <<>>, FALSE)
    IN  IF data[1] # 42 \/ Len(numbers) < 3
        THEN [falsy |-> TRUE, value |-> NoSample]
        ELSE [falsy |-> FALSE,
              value |-> [type |-> "accelerometer", x |-> numbers[1], y |-> numbers[2],
                         z |-> numbers[3], timestamp |-> clock]]

\* GoCubeBluetooth.analyzeMovePattern: the object returned (there is no other
\* return); the confidence min(maxDelta / 5.0, 1.0) in hundredths
analyzeMovePattern(currentAccel, lastAccel) ==
    LET deltaX == abs(currentAccel.x - lastAccel.x)
        deltaY == abs(currentAccel.y - lastAccel.y)
        deltaZ == abs(currentAccel.z - lastAccel.z)
        primaryAxis == IF deltaZ > Max(deltaX, deltaY) THEN "z"
                       ELSE IF deltaY > deltaX THEN "y" ELSE "x"
        maxDelta == Max(deltaX, Max(deltaY, deltaZ))
        positive == currentAccel[primaryAxis] > lastAccel[primaryAxis]
        move == CASE primaryAxis = "x" ->
                       IF deltaX > deltaY /\ deltaX > deltaZ
                       THEN (IF positive THEN "R" ELSE "R'") ELSE "Move"
                  [] primaryAxis = "y" ->
                       IF deltaY > deltaX /\ deltaY > deltaZ
                       THEN (IF positive THEN "U" ELSE "U'") ELSE "Move"
                  [] primaryAxis = "z" ->
                       IF deltaZ > deltaX /\ deltaZ > deltaY
                       THEN (IF positive THEN "F" ELSE "F'") ELSE "Move"
    IN  [type |-> "move",
         move |-> IF maxDelta < 1500 THEN "Move" ELSE move,
         confidence |-> Min(maxDelta \div 50, 100),
         timestamp |-> currentAccel.timestamp]

\* GoCubeBluetooth.detectMoveFromAcceleration: the object after the call and
\* the events emitted (accelerationHistory, which nothing reads, is left out)
detectMoveFromAcceleration(c, sensorData) ==
    IF c.lastAcceleration = NoSample
    THEN [c |-> [c EXCEPT !.lastAcceleration = sensorData], emitted |-> <<>>]
    ELSE LET l == c.lastAcceleration
             magnitude == sqrt(sensorData.x * sensorData.x + sensorData.y * sensorData.y
                               + sensorData.z * sensorData.z)
             lastMagnitude == sqrt(l.x * l.x + l.y * l.y + l.z * l.z)
             accelerationChange == abs(magnitude - lastMagnitude)
             timeGap == sensorData.timestamp - l.timestamp
         IN  IF /\ accelerationChange > 2000 /\ timeGap > 50 /\ timeGap < 500
                /\ (~Truthy(c.lastMoveDetection)
                       \/ sensorData.timestamp - c.lastMoveDetection > 800)
             THEN [c |-> [c EXCEPT !.lastMoveDetection = sensorData.timestamp,
                                   !.lastAcceleration = sensorData],
                   emitted |-> <<Emit("move", analyzeMovePattern(sensorData, l))>>]
             ELSE [c |-> [c EXCEPT !.lastAcceleration = sensorData], emitted |-> <<>>]

\* GoCubeBluetooth.handleAccelerometerData
GoCube_handleAccelerometerData(c, data, clock) ==
    LET sensorData == parseGoCubeSensorData(data, clock)
        d == detectMoveFromAcceleration(c, sensorData.value)
    IN  IF sensorData.falsy THEN [c |-> c, emitted |-> <<>>]
        ELSE [c |-> d.c,
              emitted |-> <<Emit("accelerometer", sensorData.value)>> \o d.emitted]

\* GoCubeBluetooth.handleDataReceived: the object after the call and the
\* events emitted in order (accelerometerEnabled and moveDetectionOnly as the
\* constructor sets them)
GoCube_handleDataReceived(c, data, clock) ==
    LET raw == Emit("rawData", [bytes |-> data, timestamp |-> clock])
        packetType == identifyPacketType(data)
        sensor == GoCube_handleAccelerometerData(c, data, clock)
    IN  CASE packetType = "move" ->
                 [c |-> c, emitted |-> <<raw>> \o GoCube_handleMoveData(data, clock)]
          [] packetType \in {"accelerometer", "sensor"} ->
                 [c |-> sensor.c, emitted |-> <<raw>> \o sensor.emitted]
          [] packetType = "battery" ->
                 [c |-> c,
                  emitted |-> <<raw>> \o (IF Len(data) >= 2
                                          THEN <<Emit("batteryLevel", data[2])>>
                                          ELSE <<>>)]
          [] OTHER -> [c |-> c, emitted |-> <<raw>>]

(***************************************************************************)
(* CubeCoachApp (app.js).  A handler is an operator on the system: the     *)
(* application's fields, its timer and parser, and the callbacks the       *)
(* browser holds for it.  DOM updates are left out.                        *)
(***************************************************************************)

\* the delay of both setTimeout calls in updateSolveState
ScrambleDelay == 15000

\* the fields the CubeCoachApp constructor sets
AppInit ==
    [currentSolveNumber |-> 1, isAutoTimer |-> TRUE, lastMoveTime |-> 0,
     solveStarted |-> FALSE, cubeState |-> "solved", scrambleStartTime |-> Null,
     scrambleInProgress |-> FALSE, movesSinceScramble |-> 0,
     scrambleTimeout |-> Null, isWaitingForInspection |-> FALSE]

\* the system as one value
Sys == [app |-> app, timer |-> timer, iv |-> intervals, to |-> timeouts,
        sp |-> solveParser]

\* the ids the program or the browser still holds
UsedIds(s) ==
    {i \in {s.timer.intervalId, s.app.scrambleTimeout} : i # Null}
        \cup s.iv \cup {x.id : x \in s.to}

\* clearTimeout(id)
clearTimeout(to, id) == {x \in to : x.id # id}

\* CubeCoachApp.getScramble: the text of the scramble input, left empty here
getScramble == ""

\* CubeCoachApp.startTimer without its call of solveParser.startSolve
startTimer_noStartSolve(s, clock) ==
    LET r == Timer_start(s.timer, s.iv, clock, FreshId(UsedIds(s)))
    IN  IF ~r.falsy
        THEN [s EXCEPT !.timer = r.t, !.iv = r.iv, !.app.solveStarted = TRUE]
        ELSE s

\* CubeCoachApp.startTimer
startTimer(s, clock) ==
    LET r == Timer_start(s.timer, s.iv, clock, FreshId(UsedIds(s)))
    IN  IF ~r.falsy
        THEN [s EXCEPT !.timer = r.t, !.iv = r.iv, !.app.solveStarted = TRUE,
                       !.sp = SolveParser_startSolve(s.sp, getScramble, clock)]
        ELSE s

\* CubeCoachApp.stopTimer with the increment of the solve number outside the
\* `if (result)` block
stopTimer_countsFailedStops(s, clock) ==
    LET r == Timer_stop(s.timer, s.iv, clock)
    IN  IF ~r.falsy
        THEN [s EXCEPT !.timer = r.t, !.iv = r.iv, !.app.solveStarted = FALSE,
                       !.sp = SolveParser_stopSolve(s.sp, clock).p,
                       !.app.currentSolveNumber = @ + 1]
        ELSE [s EXCEPT !.app.currentSolveNumber = @ + 1]

\* CubeCoachApp.stopTimer
stopTimer(s, clock) ==
    LET r == Timer_stop(s.timer, s.iv, clock)
    IN  IF ~r.falsy
        THEN [s EXCEPT !.timer = r.t, !.iv = r.iv, !.app.solveStarted = FALSE,
                       !.sp = SolveParser_stopSolve(s.sp, clock).p,
                       !.app.currentSolveNumber = @ + 1]
        ELSE s

\* CubeCoachApp.resetTimer
resetTimer(s) ==
    LET r == Timer_reset(s.timer, s.iv)
    IN  [s EXCEPT !.timer = r.t, !.iv = r.iv, !.app.solveStarted = FALSE,
                  !.sp = SolveParser_resetSolve(s.sp)]

\* CubeCoachApp.prepareSolve
prepareSolve(s) ==
    LET s1 == resetTimer([s EXCEPT !.app.solveStarted = FALSE])
    IN  [s1 EXCEPT !.sp = SolveParser_resetSolve(s1.sp)]

\* CubeCoachApp.handleCubeState without its stop on solved
handleCubeState_neverStops(s, state, clock) ==
    IF state.scrambled /\ ~s.app.solveStarted /\ s.app.isAutoTimer
    THEN prepareSolve(s) ELSE s

\* CubeCoachApp.handleCubeState
handleCubeState(s, state, clock) ==
    LET s1 == IF state.scrambled /\ ~s.app.solveStarted /\ s.app.isAutoTimer
              THEN prepareSolve(s) ELSE s
    IN  IF state.solved /\ s1.app.solveStarted /\ s1.timer.isRunning
        THEN stopTimer(s1, clock) ELSE s1

\* the re-arming of the inactivity timeout without its clearTimeout
armScrambleTimeout_noClear(s, clock) ==
    LET id == FreshId(UsedIds(s))
    IN  [s EXCEPT !.to = @ \cup {[id |-> id, due |-> clock + ScrambleDelay]},
                  !.app.scrambleTimeout = id]

\* the two statements that re-arm the inactivity timeout in updateSolveState:
\* clearTimeout of the handle held, if any, then setTimeout(..., 15000)
armScrambleTimeout(s, clock) ==
    LET cleared == IF Truthy(s.app.scrambleTimeout)
                   THEN clearTimeout(s.to, s.app.scrambleTimeout) ELSE s.to
        id == FreshId(UsedIds(s))
    IN  [s EXCEPT !.to = cleared \cup {[id |-> id, due |-> clock + ScrambleDelay]},
                  !.app.scrambleTimeout = id]

\* CubeCoachApp.updateSolveState with the two flags of case 'solved' mixed up:
\* isWaitingForInspection is set where scrambleInProgress should be
updateSolveState_flagsMixedUp(s, move, clock) ==
    CASE s.app.cubeState = "solved" ->
           armScrambleTimeout(
               [s EXCEPT !.app.cubeState = "scrambled",
                         !.app.scrambleStartTime = clock,
                         !.app.movesSinceScramble = 1,
                         !.app.isWaitingForInspection = TRUE], clock)
      [] s.app.cubeState = "scrambled" ->
           IF s.app.scrambleInProgress
           THEN armScrambleTimeout(
                    [s EXCEPT !.app.movesSinceScramble = @ + 1], clock)
           ELSE IF s.app.isWaitingForInspection
                THEN LET s1 == startTimer(
                                   [s EXCEPT !.app.cubeState = "solving",
                                             !.app.isWaitingForInspection = FALSE,
                                             !.app.solveStarted = TRUE], clock)
                     IN  [s1 EXCEPT !.sp = SolveParser_addMove(s1.sp, move)]
                ELSE s
      [] s.app.cubeState = "solving" ->
           IF s.app.solveStarted
           THEN [s EXCEPT !.sp = SolveParser_addMove(s.sp, move)]
           ELSE s
      [] OTHER -> s

\* CubeCoachApp.updateSolveState without the addMove of the move that starts
\* the solve (app.js line 253 left out)
updateSolveState_dropsFirstMove(s, move, clock) ==
    CASE s.app.cubeState = "solved" ->
           armScrambleTimeout(
               [s EXCEPT !.app.cubeState = "scrambled",
                         !.app.scrambleStartTime = clock,
                         !.app.movesSinceScramble = 1,
                         !.app.scrambleInProgress = TRUE], clock)
      [] s.app.cubeState = "scrambled" ->
           IF s.app.scrambleInProgress
           THEN armScrambleTimeout(
                    [s EXCEPT !.app.movesSinceScramble = @ + 1], clock)
           ELSE IF s.app.isWaitingForInspection
                THEN startTimer(
                         [s EXCEPT !.app.cubeState = "solving",
                                   !.app.isWaitingForInspection = FALSE,
                                   !.app.solveStarted = TRUE], clock)
                ELSE s
      [] s.app.cubeState = "solving" ->
           IF s.app.solveStarted
           THEN [s EXCEPT !.sp = SolveParser_addMove(s.sp, move)]
           ELSE s
      [] OTHER -> s

\* CubeCoachApp.updateSolveState
updateSolveState(s, move, clock) ==
    CASE s.app.cubeState = "solved" ->
           armScrambleTimeout(
               [s EXCEPT !.app.cubeState = "scrambled",
                         !.app.scrambleStartTime = clock,
                         !.app.movesSinceScramble = 1,
                         !.app.scrambleInProgress = TRUE], clock)
      [] s.app.cubeState = "scrambled" ->
           IF s.app.scrambleInProgress
           THEN armScrambleTimeout(
                    [s EXCEPT !.app.movesSinceScramble = @ + 1], clock)
           ELSE IF s.app.isWaitingForInspection
                THEN LET s1 == startTimer(
                                   [s EXCEPT !.app.cubeState = "solving",
                                             !.app.isWaitingForInspection = FALSE,
                                             !.app.solveStarted = TRUE], clock)
                     IN  [s1 EXCEPT !.sp = SolveParser_addMove(s1.sp, move)]
                ELSE s
      [] s.app.cubeState = "solving" ->
           IF s.app.solveStarted
           THEN [s EXCEPT !.sp = SolveParser_addMove(s.sp, move)]
           ELSE s
      [] OTHER -> s

\* CubeCoachApp.handleMoveData
handleMoveData(s, move, clock) ==
    [updateSolveState(s, move, clock) EXCEPT !.app.lastMoveTime = move.timestamp]

\* the setTimeout callback of updateSolveState without its
\* `this.scrambleInProgress = false`
scrambleTimeoutCallback_keepsScrambling(s) ==
    IF s.app.cubeState = "scrambled" /\ s.app.scrambleInProgress
    THEN [s EXCEPT !.app.isWaitingForInspection = TRUE]
    ELSE s

\* the callback both setTimeout calls of updateSolveState schedule
scrambleTimeoutCallback(s) ==
    IF s.app.cubeState = "scrambled" /\ s.app.scrambleInProgress
    THEN [s EXCEPT !.app.scrambleInProgress = FALSE,
                   !.app.isWaitingForInspection = TRUE]
    ELSE s

\* CubeCoachApp.resetCubeState without its clearTimeout block
resetCubeState_keepTimeout(s) ==
    LET s1 == [s EXCEPT !.app.cubeState = "solved",
                        !.app.scrambleStartTime = Null,
                        !.app.scrambleInProgress = FALSE,
                        !.app.movesSinceScramble = 0,
                        !.app.isWaitingForInspection = FALSE,
                        !.app.solveStarted = FALSE]
        s3 == IF s1.timer.isRunning THEN resetTimer(s1) ELSE s1
    IN  [s3 EXCEPT !.sp = SolveParser_resetSolve(s3.sp)]

\* CubeCoachApp.resetCubeState
resetCubeState(s) ==
    LET s1 == [s EXCEPT !.app.cubeState = "solved",
                        !.app.scrambleStartTime = Null,
                        !.app.scrambleInProgress = FALSE,
                        !.app.movesSinceScramble = 0,
                        !.app.isWaitingForInspection = FALSE,
                        !.app.solveStarted = FALSE]
        s2 == IF Truthy(s1.app.scrambleTimeout)
              THEN [s1 EXCEPT !.to = clearTimeout(s1.to, s1.app.scrambleTimeout),
                              !.app.scrambleTimeout = Null]
              ELSE s1
        s3 == IF s2.timer.isRunning THEN resetTimer(s2) ELSE s2
    IN  [s3 EXCEPT !.sp = SolveParser_resetSolve(s3.sp)]

\* CubeCoachApp.handleCubeDisconnected
handleCubeDisconnected(s, clock) ==
    IF s.timer.isRunning THEN stopTimer(s, clock) ELSE s

\* CubeCoachApp.handleSolveComplete
handleSolveComplete(s, clock) ==
    IF s.timer.isRunning THEN stopTimer(s, clock) ELSE s

\* the lifecycle state of section 4.4 that the application's fields encode,
\* read the way updateSolveState and updateCubeStateDisplay branch on them
Lifecycle(a) ==
    CASE a.cubeState = "solved" -> "Solved"
      [] a.cubeState = "scrambled" /\ a.scrambleInProgress -> "Scrambling"
      [] a.cubeState = "scrambled" /\ a.isWaitingForInspection -> "ReadyForInspection"
      [] a.cubeState = "solving" -> "Solving"
      [] OTHER -> "None"

\* the state a handler is called in, as far as the properties look back at it
From ==
    [lifecycle |-> Lifecycle(app), solveStarted |-> app.solveStarted,
     recording |-> solveParser.isRecording, running |-> timer.isRunning,
     paused |-> timer.isPaused]

(***************************************************************************)
(* Bounds and inputs                                                       *)
(***************************************************************************)

\* the application's clock stops here
MaxNow == 22501

\* solve objects alive at once (finalized ones and the one being recorded)
MaxSolves == 1

\* solve objects alive at once when the parser is driven alone
MaxParserSolves == 2

\* moves recorded into one solve
MaxMoves == 2

\* moves counted during one scramble
MaxScrambleMoves == 2

\* the clock stops here when the timer is driven alone
MaxTimerNow == 1001

\* moves in a list handed to analyzePhases alone
MaxPhaseMoves == 8

\* how far the clock moves between two events of the application
ClockSteps == {7500}

\* how far the clock moves between two calls of the timer driven alone
TimerSteps == {200, 300}

\* the move bytes the cube sends: U and R
MoveBytes == {1, 7}

\* the notations of the lists handed to analyzePhases alone
MaxPackets == 3
MaxPacketNow == 601

\* sensor notifications handled in one run
MaxSamples == 4

\* notifications of one byte stream handled in one run
MaxChunks == 4

\* the longest tail of R moves of a long solve
MaxTail == 15
PacketSteps == {250, 300}
PhaseNotations == {"U", "R", "R'"}

(***************************************************************************)
(* Spec: the application, driven by the cube's events, the user's clicks,  *)
(* the browser's timers and the passing of time.                           *)
(*                                                                         *)
(* A setTimeout callback runs when its delay has passed, before any event  *)
(* that arrives later: while one is due nothing else happens.              *)
(***************************************************************************)

Init ==
    /\ now = 1
    /\ timer = TimerInit
    /\ intervals = {}
    /\ timeouts = {}
    /\ app = AppInit
    /\ solveParser = SolveParserInit
    /\ last = Ret("init", From, TRUE, Null)
    /\ runMs = 0
    /\ phIn = <<>>
    /\ phOut = [done |-> FALSE, phases |-> EmptyPhases]
    /\ fmt = [arg |-> Undefined, text |-> <<>>, parsed |-> Null]
    /\ gan = GANInit
    /\ packetLog = <<>>
    /\ gocube = GoCubeInit

\* the counters the code leaves unbounded stay within the bounds
Bounded(s) ==
    /\ Len(s.sp.objs) <= MaxSolves
    /\ Len(s.sp.moves) <= MaxMoves
    /\ s.app.movesSinceScramble <= MaxScrambleMoves

\* a setTimeout callback whose delay has passed
TimeoutDue == \E x \in timeouts : x.due <= now

\* the system becomes s2 by the handler named op, called with the event arg
AppStep(op, arg, s2) ==
    /\ Bounded(s2)
    /\ app' = s2.app
    /\ timer' = s2.timer
    /\ intervals' = s2.iv
    /\ timeouts' = s2.to
    /\ solveParser' = s2.sp
    /\ last' = Ret(op, From, TRUE, arg)
    /\ runMs' = RunMsAfter(timer, s2.timer)
    /\ UNCHANGED <<now, phIn, phOut, fmt, gan, packetLog, gocube>>

\* a 0x02 message arrives: 'moveData' is emitted to handleMoveData
MoveData ==
    /\ ~TimeoutDue
    /\ \E b \in MoveBytes :
           LET move == parseMoveData(<<2, b, 0, 0>>, now)
           IN  AppStep("moveData", move, handleMoveData(Sys, move, now))

\* a 0x01 message arrives: 'cubeState' is emitted to handleCubeState
CubeState ==
    /\ ~TimeoutDue
    /\ \E scrambled \in {0, 1}, solved \in {0, 1} :
           LET state == parseCubeState(<<1, scrambled, solved, 0, 0, 0>>, now)
           IN  AppStep("cubeState", state, handleCubeState(Sys, state, now))

\* 'solveComplete' is emitted to handleSolveComplete
SolveComplete ==
    /\ ~TimeoutDue
    /\ AppStep("solveComplete", Null, handleSolveComplete(Sys, now))

\* 'disconnected' is emitted to handleCubeDisconnected
Disconnected ==
    /\ ~TimeoutDue
    /\ AppStep("disconnected", Null, handleCubeDisconnected(Sys, now))

\* a click on start-timer-btn
StartTimer ==
    /\ ~TimeoutDue
    /\ AppStep("startTimer", Null, startTimer(Sys, now))

\* a click on stop-timer-btn
StopTimer ==
    /\ ~TimeoutDue
    /\ AppStep("stopTimer", Null, stopTimer(Sys, now))

\* a click on reset-timer-btn
ResetTimer ==
    /\ ~TimeoutDue
    /\ AppStep("resetTimer", Null, resetTimer(Sys))

\* a click on reset-cube-state
ResetCubeState ==
    /\ ~TimeoutDue
    /\ AppStep("resetCubeState", Null, resetCubeState(Sys))

\* the browser runs a due setTimeout callback and forgets it
ScrambleTimeout ==
    \E x \in timeouts :
        /\ x.due <= now
        /\ AppStep("scrambleTimeout", Null,
                   scrambleTimeoutCallback([Sys EXCEPT !.to = @ \ {x}]))

\* the browser runs a setInterval callback
Tick ==
    /\ ~TimeoutDue
    /\ \E id \in intervals :
           AppStep("tick", Null, [Sys EXCEPT !.timer = tickCallback(timer, now)])

\* time passes, up to the next setTimeout callback's turn
AdvanceTime ==
    /\ ~TimeoutDue
    /\ \E d \in ClockSteps :
           LET dues == {x.due : x \in timeouts}
               t == IF \E x \in dues : x <= now + d
                    THEN CHOOSE x \in dues : \A y \in dues : x <= y
                    ELSE now + d
           IN  /\ t <= MaxNow
               /\ now' = t
               /\ runMs' = IF timer.isRunning /\ ~timer.isPaused
                           THEN runMs + (t - now) ELSE runMs
    /\ last' = Ret("advance", From, TRUE, Null)
    /\ UNCHANGED <<timer, intervals, timeouts, app, solveParser, phIn, phOut, fmt, gan, packetLog, gocube>>

Next ==
    \/ MoveData
    \/ CubeState
    \/ SolveComplete
    \/ Disconnected
    \/ StartTimer
    \/ StopTimer
    \/ ResetTimer
    \/ ResetCubeState
    \/ ScrambleTimeout
    \/ Tick
    \/ AdvanceTime

Spec == Init /\ [][Next]_vars

(***************************************************************************)
(* SpecAuto: the application with the automatic timer alone.  Only moves   *)
(* arrive; nobody clicks, the cube sends no other event.                   *)
(***************************************************************************)

NextAuto ==
    \/ MoveData
    \/ ScrambleTimeout
    \/ Tick
    \/ AdvanceTime

SpecAuto == Init /\ [][NextAuto]_vars

(***************************************************************************)
(* SpecTimer: the Timer object driven directly, one call at a time.        *)
(***************************************************************************)

\* the timer and the browser's intervals become those of r, the outcome of op
TimerStep(op, r) ==
    /\ timer' = r.t
    /\ intervals' = r.iv
    /\ last' = Ret(op, From, r.falsy, r.value)
    /\ runMs' = RunMsAfter(timer, r.t)
    /\ UNCHANGED <<now, timeouts, app, solveParser, phIn, phOut, fmt, gan, packetLog, gocube>>

TStart == TimerStep("start", Timer_start(timer, intervals, now, FreshId(intervals)))

TStop == TimerStep("stop", Timer_stop(timer, intervals, now))

TPause == TimerStep("pause", Timer_pause(timer, intervals, now))

TResume == TimerStep("resume", Timer_resume(timer, intervals, now, FreshId(intervals)))

TReset == TimerStep("reset", Timer_reset(timer, intervals))

TSplit == TimerStep("split", Timer_split(timer, intervals, now))

\* a read of the time by getCurrentTime
TGetCurrentTime == TimerStep("getCurrentTime", getCurrentTime(timer, intervals, now))

\* a read of the time by getElapsedTime
TGetElapsedTime ==
    TimerStep("getElapsedTime", [t |-> timer, iv |-> intervals, falsy |-> FALSE,
                                 value |-> getElapsedTime(timer, now)])

\* the browser runs the setInterval callback of start or resume
TTick ==
    /\ \E id \in intervals :
           TimerStep("tick", [t |-> tickCallback(timer, now), iv |-> intervals,
                              falsy |-> TRUE, value |-> Null])

\* time passes between two calls
TAdvance ==
    /\ \E d \in TimerSteps :
           /\ now + d <= MaxTimerNow
           /\ now' = now + d
           /\ runMs' = IF timer.isRunning /\ ~timer.isPaused
                       THEN runMs + d ELSE runMs
    /\ last' = Ret("advance", From, TRUE, Null)
    /\ UNCHANGED <<timer, intervals, timeouts, app, solveParser, phIn, phOut, fmt, gan, packetLog, gocube>>

NextTimer ==
    \/ TStart
    \/ TStop
    \/ TPause
    \/ TResume
    \/ TReset
    \/ TSplit
    \/ TGetCurrentTime
    \/ TGetElapsedTime
    \/ TTick
    \/ TAdvance

SpecTimer == Init /\ [][NextTimer]_vars

(***************************************************************************)
(* SpecParser: the SolveParser object driven directly, one call at a time. *)
(***************************************************************************)

\* the parser becomes p2 by the method named op, which returned value
ParserStep(op, falsy, value, p2) ==
    /\ Len(p2.objs) <= MaxParserSolves
    /\ Len(p2.moves) <= MaxMoves
    /\ solveParser' = p2
    /\ last' = Ret(op, From, falsy, value)
    /\ UNCHANGED <<now, timer, intervals, timeouts, app, runMs, phIn, phOut, fmt, gan, packetLog, gocube>>

PStart ==
    ParserStep("startSolve", TRUE, Null,
               SolveParser_startSolve(solveParser, getScramble, now))

\* addMove returns nothing; the value kept is the moveData it was given
PAdd ==
    \E b \in MoveBytes :
        LET moveData == parseMoveData(<<2, b, 0, 0>>, now)
        IN  ParserStep("addMove", TRUE, moveData,
                       SolveParser_addMove(solveParser, moveData))

PStop ==
    LET r == SolveParser_stopSolve(solveParser, now)
    IN  ParserStep("stopSolve", r.falsy, r.value, r.p)

PReset == ParserStep("resetSolve", TRUE, Null, SolveParser_resetSolve(solveParser))

\* time passes between two calls
PAdvance ==
    /\ \E d \in ClockSteps :
           /\ now + d <= MaxNow
           /\ now' = now + d
    /\ last' = Ret("advance", From, TRUE, Null)
    /\ UNCHANGED <<timer, intervals, timeouts, app, solveParser, runMs, phIn, phOut, fmt, gan, packetLog, gocube>>

NextParser ==
    \/ PStart
    \/ PAdd
    \/ PStop
    \/ PReset
    \/ PAdvance

SpecParser == Init /\ [][NextParser]_vars

(***************************************************************************)
(* SpecPhases: analyzePhases applied to every move list up to              *)
(* MaxPhaseMoves moves over PhaseNotations, one move every 100 ms.         *)
(***************************************************************************)

\* one more move is recorded into the list
PhRecord ==
    /\ ~phOut.done
    /\ Len(phIn) < MaxPhaseMoves
    /\ \E n \in PhaseNotations :
           phIn' = Append(phIn, [notation |-> n, timestamp |-> 100 * (Len(phIn) + 1),
                                 duration |-> 0,
                                 relativeTime |-> 100 * (Len(phIn) + 1)])
    /\ UNCHANGED <<now, timer, intervals, timeouts, app, solveParser, last, runMs, phOut, fmt, gan, packetLog, gocube>>

\* stopSolve's call of analyzePhases on the list, the phases as startSolve left them
PhAnalyze ==
    /\ ~phOut.done
    /\ phOut' = [done |-> TRUE, phases |-> analyzePhases(phIn, EmptyPhases)]
    /\ UNCHANGED <<now, timer, intervals, timeouts, app, solveParser, last, runMs, phIn, fmt, gan, packetLog, gocube>>

NextPhases ==
    \/ PhRecord
    \/ PhAnalyze

SpecPhases == Init /\ [][NextPhases]_vars

(***************************************************************************)
(* SpecLongSolve: analyzePhases applied to solves of 13 to 9 + MaxTail     *)
(* moves: R U R R R (a cross of one move and an F2L that a U move ends),   *)
(* then any four moves over PhaseNotations, then a tail of R moves.        *)
(***************************************************************************)

\* a whole solve is recorded into the list, one move every 100 ms
PhRecordSolve ==
    /\ ~phOut.done
    /\ phIn = <<>>
    /\ \E middle \in [1..4 -> PhaseNotations], k \in 4..MaxTail :
           LET ns == <<"R", "U", "R", "R", "R">> \o middle \o [i \in 1..k |-> "R"]
           IN  phIn' = [i \in 1..Len(ns) |->
                            [notation |-> ns[i], timestamp |-> 100 * i,
                             duration |-> 0, relativeTime |-> 100 * i]]
    /\ UNCHANGED <<now, timer, intervals, timeouts, app, solveParser, last, runMs, phOut, fmt, gan, packetLog, gocube>>

NextLongSolve ==
    \/ PhRecordSolve
    \/ PhAnalyze

SpecLongSolve == Init /\ [][NextLongSolve]_vars

(***************************************************************************)
(* FormatSpec: formatTime applied to numbers of milliseconds and to        *)
(* undefined, and parseTime applied to the text it returned.               *)
(***************************************************************************)

\* the values formatTime is given: whole milliseconds built from the minutes,
\* seconds and milliseconds at the edges of each field, values past the last
\* minute the text has two digits for, negative values and undefined
FormatInputs ==
    {Num(m * 60000 + sec * 1000 + k) :
        m \in {0, 1, 9, 10, 59}, sec \in {0, 1, 9, 10, 23, 59},
        k \in {0, 1, 9, 10, 99, 100, 456, 999}}
    \cup {Num(3600000), Num(5999999), Num(6000000), Num(-1), Num(-83456), Undefined}

FFormat ==
    /\ \E x \in FormatInputs :
           fmt' = [arg |-> x, text |-> formatTime(x), parsed |-> Null]
    /\ UNCHANGED <<now, timer, intervals, timeouts, app, solveParser, last, runMs, phIn, phOut, gan, packetLog, gocube>>

FParse ==
    /\ fmt.text # <<>>
    /\ fmt.parsed = Null
    /\ fmt' = [fmt EXCEPT !.parsed = parseTime(fmt.text)]
    /\ UNCHANGED <<now, timer, intervals, timeouts, app, solveParser, last, runMs, phIn, phOut, gan, packetLog, gocube>>

NextFormat ==
    \/ FFormat
    \/ FParse

SpecFormat == Init /\ [][NextFormat]_vars

(***************************************************************************)
(* PacketSpec: notifications arrive at a driver one at a time; each is     *)
(* handled to the end (handleDataReceived is synchronous) and logged with  *)
(* the events it emitted.                                                  *)
(***************************************************************************)

\* the notifications a GAN cube sends: 0x02 messages for U, U', R and for a
\* code outside the table, two messages in one notification, and 20-byte
\* packets, one of them with the bytes of a 0x02 message inside
GanPackets ==
    { <<2, 1, 0, 0>>, <<2, 2, 0, 0>>, <<2, 7, 0, 0>>, <<2, 19, 0, 0>>,
      <<2, 1, 0, 0, 2, 7, 0, 0>>,
      [i \in 1..20 |-> 48],
      [i \in 1..18 |-> 48] \o <<49, 50>>,
      <<80, 80, 80, 2, 1, 0, 0>> \o [i \in 1..13 |-> 48] }

\* the notifications a GoCube sends, sensor data apart: move packets for U, U',
\* R and for a code outside the table, a battery packet, a packet without '*'
\* sensor notifications: '*', a length byte, type 0x03, then x#y#z# in ASCII
\* and CR LF: 0 0 0, 3000 0 0, 0 -3000 0 and 1400 1400 700
SensorPackets ==
    { <<42, 11, 3, 48, 35, 48, 35, 48, 35, 13, 10>>,
      <<42, 14, 3, 51, 48, 48, 48, 35, 48, 35, 48, 35, 13, 10>>,
      <<42, 15, 3, 48, 35, 45, 51, 48, 48, 48, 35, 48, 35, 13, 10>>,
      <<42, 21, 3, 49, 52, 48, 48, 35, 49, 52, 48, 48, 35, 55, 48, 48, 35, 13, 10>> }

\* the time between one sensor notification and the next
SensorGaps == {50, 450, 500}

GoCubePackets ==
    { <<42, 1, 1, 0, 0, 0>>, <<42, 2, 1, 0, 0, 0>>, <<42, 7, 1, 0, 0, 0>>,
      <<42, 19, 1, 0, 0, 0>>, <<42, 6, 4, 0, 0, 0>>, <<1, 1, 0>> }

Logged(driver, data, could, emitted) ==
    Append(packetLog, [driver |-> driver, data |-> data, at |-> now,
                       couldBeMove |-> could, emitted |-> emitted])

\* a characteristicvaluechanged notification of the GAN cube
GPacket ==
    /\ gan.isConnected
    /\ Len(packetLog) < MaxPackets
    /\ \E data \in GanPackets :
           LET r == handleDataReceived(gan, data, now)
           IN  /\ gan' = r.g
               /\ packetLog' = Logged("gan", data, r.couldBeMove, r.emitted)
    /\ UNCHANGED <<now, timer, intervals, timeouts, app, solveParser, last, runMs,
                   phIn, phOut, fmt, gocube>>

\* gattserverdisconnected, or disconnect()
GDisconnect ==
    /\ gan.isConnected
    /\ gan' = handleDisconnection(gan)
    /\ UNCHANGED <<now, timer, intervals, timeouts, app, solveParser, last, runMs,
                   phIn, phOut, fmt, packetLog, gocube>>

\* connect(): it sleeps 3000 ms before discoverServices adds the listener
\* for notifications
GConnect ==
    /\ ~gan.isConnected
    /\ now <= MaxPacketNow
    /\ now' = now + 3000
    /\ gan' = [gan EXCEPT !.isConnected = TRUE]
    /\ UNCHANGED <<timer, intervals, timeouts, app, solveParser, last, runMs,
                   phIn, phOut, fmt, packetLog, gocube>>

\* a characteristicvaluechanged notification of the GoCube
CPacket ==
    /\ Len(packetLog) < MaxPackets
    /\ \E data \in GoCubePackets :
           LET r == GoCube_handleDataReceived(gocube, data, now)
           IN  /\ gocube' = r.c
               /\ packetLog' = Logged("gocube", data, FALSE, r.emitted)
    /\ UNCHANGED <<now, timer, intervals, timeouts, app, solveParser, last, runMs,
                   phIn, phOut, fmt, gan>>

\* a sensor notification arrives, gap ms after the previous one
SSample ==
    /\ Len(packetLog) < MaxSamples
    /\ \E gap \in SensorGaps, data \in SensorPackets :
           LET r == GoCube_handleDataReceived(gocube, data, now + gap)
           IN  /\ now' = now + gap
               /\ gocube' = r.c
               /\ packetLog' = Append(packetLog,
                                      [driver |-> "gocube", data |-> data, at |-> now + gap,
                                       couldBeMove |-> FALSE, emitted |-> r.emitted])
    /\ UNCHANGED <<timer, intervals, timeouts, app, solveParser, last, runMs,
                   phIn, phOut, fmt, gan>>

NextMotion ==
    \/ SSample

SpecMotion == Init /\ [][NextMotion]_vars

\* the pieces a byte stream arrives in: the header of a 0x02 message and its
\* three other bytes, the first half of a 0x02 message, its second half with
\* the first two bytes of a 0x01 message (or the last four of one), the first
\* seven and the last five bytes of a 0x04 message, and a 0x03 byte with a
\* byte that is no header
StreamChunks ==
    { <<2>>, <<1, 0, 0>>, <<2, 7>>, <<0, 0, 1, 1>>,
      <<4, 128, 0, 128, 1, 127, 255>>, <<0, 0, 0, 0, 0>>, <<3, 9>> }

\* the time between one notification of the stream and the next
ChunkGaps == {20, 250}

\* a characteristicvaluechanged notification that carries the next piece of
\* the byte stream, gap ms after the previous one
GChunk ==
    /\ gan.isConnected
    /\ Len(packetLog) < MaxChunks
    /\ \E gap \in ChunkGaps, data \in StreamChunks :
           LET r == handleDataReceived(gan, data, now + gap)
           IN  /\ now' = now + gap
               /\ gan' = r.g
               /\ packetLog' = Append(packetLog,
                                      [driver |-> "gan", data |-> data, at |-> now + gap,
                                       couldBeMove |-> r.couldBeMove, emitted |-> r.emitted])
    /\ UNCHANGED <<timer, intervals, timeouts, app, solveParser, last, runMs,
                   phIn, phOut, fmt, gocube>>

NextStream ==
    \/ GChunk

SpecStream == Init /\ [][NextStream]_vars

\* time passes between notifications
PacketAdvance ==
    /\ \E d \in PacketSteps : now + d <= MaxPacketNow /\ now' = now + d
    /\ UNCHANGED <<timer, intervals, timeouts, app, solveParser, last, runMs,
                   phIn, phOut, fmt, gan, packetLog, gocube>>

NextGan ==
    \/ GPacket
    \/ GDisconnect
    \/ GConnect
    \/ PacketAdvance

SpecGan == Init /\ [][NextGan]_vars

NextGoCube ==
    \/ CPacket
    \/ PacketAdvance

SpecGoCube == Init /\ [][NextGoCube]_vars

(***************************************************************************)
(* MatcherSpec: detectOLLAlgorithm and detectPLLAlgorithm applied to one   *)
(* segment of recorded moves.                                              *)
(***************************************************************************)

\* the segments handed to the detectors: the tokens of every table entry,
\* those tokens with another last move or after a first move U, and every
\* list of at most two moves
MatcherInputs ==
    LET entries == {ollPatterns[k].patterns[1] : k \in DOMAIN ollPatterns}
                   \cup {pllPatterns[k].patterns[1] : k \in DOMAIN pllPatterns}
    IN  entries
        \cup {[e EXCEPT ![Len(e)] = n] : e \in entries, n \in PhaseNotations}
        \cup {<<"U">> \o e : e \in entries}
        \cup {<<>>} \cup {<<a>> : a \in PhaseNotations}
        \cup {<<a, b>> : a \in PhaseNotations, b \in PhaseNotations}

\* the moves of a segment as addMove records them
MSegment ==
    /\ phIn = <<>>
    /\ ~phOut.done
    /\ \E seg \in MatcherInputs :
           phIn' = [i \in 1..Len(seg) |->
                        [notation |-> seg[i], timestamp |-> 100 * i,
                         duration |-> 0, relativeTime |-> 100 * i]]
    /\ UNCHANGED <<now, timer, intervals, timeouts, app, solveParser, last, runMs, phOut,
                   fmt, gan, packetLog, gocube>>

\* analyzePhases' calls of detectOLLAlgorithm and detectPLLAlgorithm on the segment
MDetect ==
    /\ ~phOut.done
    /\ phOut' = [done |-> TRUE,
                 phases |-> detectPLLAlgorithm(detectOLLAlgorithm(EmptyPhases, phIn), phIn)]
    /\ UNCHANGED <<now, timer, intervals, timeouts, app, solveParser, last, runMs, phIn,
                   fmt, gan, packetLog, gocube>>

NextMatcher ==
    \/ MSegment
    \/ MDetect

SpecMatcher == Init /\ [][NextMatcher]_vars

(***************************************************************************)
(* Properties                                                              *)
(***************************************************************************)

\* C1 (SpecAuto): from Solved with the timer idle, moves less than 15 s apart
\* keep the lifecycle in Scrambling and start nothing; Scrambling is left only
\* by the inactivity timeout, 15 s after the last move, for ReadyForInspection;
\* the move that follows enters Solving and starts the timer at that moment;
\* the timer is started by no other step, and Solving is not left again, so
\* Timer.start succeeds exactly once.
C1_AutoStartAfterSilence ==
    /\ [](timer.isRunning <=> Lifecycle(app) = "Solving")
    /\ [][LET from == Lifecycle(app)
              to == Lifecycle(app')
              op == last'.op
          IN  /\ (op = "moveData" /\ from \in {"Solved", "Scrambling"}) =>
                     (to = "Scrambling" /\ timer' = timer)
              /\ (from = "Scrambling" /\ to # "Scrambling") =>
                     /\ op = "scrambleTimeout"
                     /\ to = "ReadyForInspection"
                     /\ now = app.lastMoveTime + ScrambleDelay
              /\ (from = "ReadyForInspection" /\ to # "ReadyForInspection") =>
                     op = "moveData"
              /\ (op = "moveData" /\ from = "ReadyForInspection") =>
                     /\ to = "Solving"
                     /\ ~timer.isRunning
                     /\ timer'.isRunning
                     /\ timer'.startTime = now
              /\ (timer'.isRunning # timer.isRunning
                      \/ timer'.startTime # timer.startTime) =>
                     (op = "moveData" /\ from = "ReadyForInspection")
              /\ from = "Solving" => to = "Solving"]_vars

\* C1 witness: two scramble moves, the silence, and the move that started the timer
C1_Witness ==
    /\ last.op = "moveData"
    /\ last.from.lifecycle = "ReadyForInspection"
    /\ ~last.from.running
    /\ Lifecycle(app) = "Solving"
    /\ app.movesSinceScramble >= 2
    /\ timer.isRunning
    /\ timer.startTime = now
    /\ now >= ScrambleDelay

\* C2 (Spec): in Solving with the solve in progress, a manual stop or a cubeState
\* event with solved = true leaves the lifecycle Solved, the timer stopped, the
\* active solve finalized into the history and the solve counter one higher.
C2_StopReturnsToSolved ==
    [][(/\ Lifecycle(app) = "Solving"
        /\ timer.isRunning
        /\ app.solveStarted
        /\ solveParser.isRecording
        /\ \/ last'.op = "stopTimer"
           \/ (last'.op = "cubeState" /\ last'.value.solved)) =>
          /\ Lifecycle(app') = "Solved"
          /\ ~timer'.isRunning
          /\ solveParser'.solveHistory =
                 Append(solveParser.solveHistory, solveParser.currentSolve)
          /\ app'.currentSolveNumber = app.currentSolveNumber + 1]_vars

\* C3 (Spec): from every reachable state resetCubeState leaves the lifecycle
\* Solved, no active solve, the timer idle, no setTimeout or setInterval callback
\* pending (so none can act after it), and finalizes nothing: the history, the
\* finalized solves and the solve counter are as before.
C3_ResetReturnsToSolved ==
    [][last'.op = "resetCubeState" =>
          /\ Lifecycle(app') = "Solved"
          /\ solveParser'.currentSolve = 0
          /\ ~solveParser'.isRecording
          /\ ~app'.solveStarted
          /\ ~timer'.isRunning
          /\ timeouts' = {}
          /\ intervals' = {}
          /\ solveParser'.solveHistory = solveParser.solveHistory
          /\ \A h \in 1..Len(solveParser.solveHistory) :
                 solveParser'.objs[solveParser.solveHistory[h]] =
                     solveParser.objs[solveParser.solveHistory[h]]
          /\ app'.currentSolveNumber = app.currentSolveNumber]_vars

\* C3 witness: a reset in the middle of a solve, timer running and ticking
C3_Witness ==
    /\ last.op = "resetCubeState"
    /\ last.from.lifecycle = "Solving"
    /\ last.from.recording
    /\ last.from.running
    /\ Lifecycle(app) = "Solved"
    /\ solveParser.currentSolve = 0
    /\ solveParser.solveHistory = <<>>
    /\ intervals = {}

\* C4 (Spec): handleCubeDisconnected while a solve is in progress resets the
\* lifecycle to Solved and discards the solve: it is not finalized, the history
\* does not grow and the solve counter does not change.
C4_DisconnectDiscardsSolve ==
    [][(/\ last'.op = "disconnected"
        /\ Lifecycle(app) = "Solving"
        /\ timer.isRunning
        /\ solveParser.isRecording) =>
          /\ Lifecycle(app') = "Solved"
          /\ solveParser'.solveHistory = solveParser.solveHistory
          /\ app'.currentSolveNumber = app.currentSolveNumber]_vars

\* C5 (Spec): the lifecycle is always one of the four states, and each change of
\* it is a transition of the table with the table's trigger; Solving is entered
\* from ReadyForInspection only.
C5_LifecycleFollowsTable ==
    /\ [](Lifecycle(app) \in {"Solved", "Scrambling", "ReadyForInspection", "Solving"})
    /\ [][LET from == Lifecycle(app)
              to == Lifecycle(app')
              op == last'.op
          IN  from # to =>
                  \/ from = "Solved" /\ to = "Scrambling" /\ op = "moveData"
                  \/ /\ from = "Scrambling"
                     /\ to = "ReadyForInspection"
                     /\ op = "scrambleTimeout"
                  \/ from = "ReadyForInspection" /\ to = "Solving" /\ op = "moveData"
                  \/ /\ from = "Solving"
                     /\ to = "Solved"
                     /\ op \in {"stopTimer", "cubeState"}
                  \/ to = "Solved" /\ op = "resetCubeState"]_vars

\* C5 witness: Solving entered, and a solve being recorded, among clicks and events
C5_Witness ==
    /\ Lifecycle(app) = "Solving"
    /\ last.op = "moveData"
    /\ last.from.lifecycle = "ReadyForInspection"
    /\ solveParser.isRecording
    /\ app.currentSolveNumber = 1

\* C6 (SpecPhases): the segments analyzePhases produces, concatenated in the
\* order cross, pair1..pair4, oll, pll, are the recorded move list.
C6_SegmentsPartitionMoves ==
    phOut.done =>
        LET ph == phOut.phases
        IN  ph.cross.moves \o ph.f2l.pair1.moves \o ph.f2l.pair2.moves
                \o ph.f2l.pair3.moves \o ph.f2l.pair4.moves
                \o ph.oll.moves \o ph.pll.moves
            = Notations(phIn)

\* C7 (Spec): in every finalized solve, consecutive recorded moves have strictly
\* increasing timestamps.
C7_TimestampsStrictlyIncrease ==
    \A h \in 1..Len(solveParser.solveHistory) :
        LET ms == solveParser.objs[solveParser.solveHistory[h]].moves
        IN  \A i \in 1..(Len(ms) - 1) : ms[i].timestamp < ms[i + 1].timestamp

\* C8 (SpecParser): addMove on a recording parser appends the move it was given
\* at the end of the active solve's list; a solve enters the history at most
\* once, by the one stopSolve that finds it recording; and no call changes a
\* solve that is in the history, nor its place there.
C8_AppendedInOrderFinalizedOnce ==
    /\ [](\A i, j \in 1..Len(solveParser.solveHistory) :
              solveParser.solveHistory[i] = solveParser.solveHistory[j] => i = j)
    /\ [][LET p == solveParser
              q == solveParser'
              c == p.currentSolve
              op == last'.op
          IN  /\ (op = "addMove" /\ p.isRecording /\ c # 0) =>
                     /\ q.currentSolve = c
                     /\ Len(q.objs[c].moves) = Len(p.objs[c].moves) + 1
                     /\ SubSeq(q.objs[c].moves, 1, Len(p.objs[c].moves)) =
                            p.objs[c].moves
                     /\ q.objs[c].moves[Len(q.objs[c].moves)].notation =
                            last'.value.move
                     /\ q.objs[c].moves[Len(q.objs[c].moves)].timestamp =
                            last'.value.timestamp
              /\ (op = "stopSolve" /\ ~last'.falsy) =>
                     /\ p.isRecording
                     /\ \A h \in 1..Len(p.solveHistory) : p.solveHistory[h] # c
                     /\ q.solveHistory = Append(p.solveHistory, c)
              /\ (op # "stopSolve" \/ last'.falsy) =>
                     q.solveHistory = p.solveHistory
              /\ \A h \in 1..Len(p.solveHistory) :
                     /\ Len(q.solveHistory) >= h
                     /\ q.solveHistory[h] = p.solveHistory[h]
                     /\ q.objs[p.solveHistory[h]] = p.objs[p.solveHistory[h]]]_vars

\* C8 witness: a move arrives for a solve of two moves that is already finalized
C8_Witness ==
    /\ last.op = "addMove"
    /\ ~last.from.recording
    /\ solveParser.currentSolve # 0
    /\ solveParser.solveHistory = <<solveParser.currentSolve>>
    /\ Len(solveParser.objs[solveParser.currentSolve].moves) = 2
    /\ solveParser.objs[solveParser.currentSolve].moves[1].notation # last.value.move

\* C9 (SpecTimer): the totalTime a successful stop returns is the time the timer
\* has been running and not paused since its start, also when stop is called
\* while the timer is paused.
C9_TotalTimeIsUnpausedTime ==
    (last.op = "stop" /\ ~last.falsy) => last.value.totalTime = runMs

\* C10 (SpecTimer): start while running, stop while not running, pause while not
\* running or already paused, resume while not paused and split while not
\* running return a falsy value and change no field of the timer and no interval.
C10_InvalidCommandsChangeNothing ==
    [][LET op == last'.op
           invalid ==
               \/ op = "start" /\ timer.isRunning
               \/ op = "stop" /\ ~timer.isRunning
               \/ op = "pause" /\ (~timer.isRunning \/ timer.isPaused)
               \/ op = "resume" /\ ~timer.isPaused
               \/ op = "split" /\ ~timer.isRunning
       IN  invalid => (last'.falsy /\ timer' = timer /\ intervals' = intervals)]_vars

\* C10 witness: start was called on a timer running for some time, and refused
C10_Witness ==
    /\ last.op = "start"
    /\ last.falsy
    /\ last.from.running
    /\ timer.isRunning
    /\ timer.startTime < now
    /\ timer.intervalId \in intervals

\* C11 (SpecTimer): once stop, pause or reset has returned the browser holds no
\* setInterval callback of the timer, so no tick is emitted until a start or
\* resume succeeds; a callback is held, and a tick emitted, only while the
\* timer is running and not paused.
C11_TicksOnlyWhileRunning ==
    /\ [](intervals # {} => (timer.isRunning /\ ~timer.isPaused))
    /\ [][/\ last'.op \in {"stop", "pause", "reset"} => intervals' = {}
          /\ last'.op = "tick" => (timer.isRunning /\ ~timer.isPaused)
          /\ (intervals = {} /\ intervals' # {}) =>
                 (last'.op \in {"start", "resume"} /\ ~last'.falsy)]_vars

\* C11 witness: a timer that has ticked is paused, and nothing is left to tick
C11_Witness ==
    /\ last.op = "pause"
    /\ ~last.falsy
    /\ timer.isPaused
    /\ timer.currentTime > 0
    /\ intervals = {}

\* C12 (SpecTimer): while the timer stays started, the elapsed time a read
\* would return never decreases from one state to the next, paused or not and
\* across resume; getElapsedTime, getCurrentTime and the tick payload all give
\* that elapsed time.
C12_ElapsedNeverDecreases ==
    [][/\ (timer.isRunning /\ timer'.isRunning) =>
              getElapsedTime(timer', now') >= getElapsedTime(timer, now)
       /\ last'.op \in {"tick", "getCurrentTime"} =>
              timer'.currentTime = getElapsedTime(timer', now')
       /\ last'.op \in {"getCurrentTime", "getElapsedTime"} =>
              last'.value = getElapsedTime(timer', now')]_vars

\* C12 witness: a timer that ran, was paused for a while and has just resumed
C12_Witness ==
    /\ last.op = "resume"
    /\ ~last.falsy
    /\ getElapsedTime(timer, now) > 0
    /\ timer.startTime + runMs = now
    /\ runMs < now - 1

\* C13: for every whole number of milliseconds x from 0 to 3599999,
\* parseTime(formatTime(x)) is x.
C13_ParseInvertsFormat ==
    (fmt.parsed # Null /\ fmt.arg.kind = "int" /\ fmt.arg.n \in 0..3599999)
        => fmt.parsed = fmt.arg.n
C13_Witness ==
    /\ fmt.arg = Num(59 * 60000 + 59 * 1000 + 999)
    /\ fmt.parsed = 3599999

\* C14: for every whole x from 0 to 3599999, formatTime(x) is MM:SS.mmm with
\* MM = floor(x / 60000), SS = floor(x / 1000) mod 60, mmm = x mod 1000, padded
\* with zeros to 2, 2 and 3 digits; formatTime(0) is 00:00.000 and
\* formatTime(83456) is 01:23.456.
C14_FormatIsPaddedFields ==
    (fmt.text # <<>> /\ fmt.arg.kind = "int" /\ fmt.arg.n \in 0..3599999) =>
        LET x == fmt.arg.n
            MM == x \div 60000
            SS == (x \div 1000) % 60
            mmm == x % 1000
        IN  /\ fmt.text = << Digit(MM \div 10), Digit(MM % 10), ":",
                             Digit(SS \div 10), Digit(SS % 10), ".",
                             Digit(mmm \div 100), Digit((mmm \div 10) % 10), Digit(mmm % 10) >>
            /\ x = 0 => fmt.text = <<"0", "0", ":", "0", "0", ".", "0", "0", "0">>
            /\ x = 83456 => fmt.text = <<"0", "1", ":", "2", "3", ".", "4", "5", "6">>
C14_Witness ==
    /\ fmt.arg = Num(83456)
    /\ fmt.text = <<"0", "1", ":", "2", "3", ".", "4", "5", "6">>

\* C15: formatTime returns 00:00.000 for every negative value and for undefined.
C15_NegativeAndUndefinedFormatAsZero ==
    (fmt.text # <<>> /\ (fmt.arg.kind = "undefined" \/ (fmt.arg.kind = "int" /\ fmt.arg.n < 0)))
        => fmt.text = <<"0", "0", ":", "0", "0", ".", "0", "0", "0">>

\* the move events among the events a packet emitted
MoveEvents(emitted) == SelectSeq(emitted, LAMBDA e : e.event \in {"moveData", "move"})

\* C16: couldBeMove never returns true for both of two packets with identical
\* bytes that arrive less than 200 ms apart.
C16_NoTwoIdenticalWithin200 ==
    \A i, j \in DOMAIN packetLog :
        (/\ i < j
         /\ packetLog[i].driver = "gan" /\ packetLog[j].driver = "gan"
         /\ packetLog[i].data = packetLog[j].data
         /\ packetLog[j].at - packetLog[i].at < 200)
        => ~(packetLog[i].couldBeMove /\ packetLog[j].couldBeMove)
C16_Witness ==
    /\ Len(packetLog) = 3
    /\ packetLog[1].data = packetLog[3].data
    /\ packetLog[1].data # packetLog[2].data
    /\ packetLog[3].at - packetLog[1].at < 200
    /\ packetLog[1].couldBeMove
    /\ ~packetLog[3].couldBeMove

\* C17: no packet (one handleDataReceived call) emits more than one move
\* event, the events of every decoding path counted.
C17_AtMostOneMovePerPacket ==
    \A i \in DOMAIN packetLog : Len(MoveEvents(packetLog[i].emitted)) <= 1

\* a packet that is one move message of the driver's direct table
IsMovePacket(p) ==
    \/ p.driver = "gan" /\ Len(p.data) = 4 /\ p.data[1] = 2
    \/ p.driver = "gocube" /\ identifyPacketType(p.data) = "move"

\* C18: a move packet whose move byte is not in 0x01..0x12 emits no move event.
C18_UnknownCodeEmitsNothing ==
    \A i \in DOMAIN packetLog :
        (/\ IsMovePacket(packetLog[i])
         /\ \A k \in 1..(i - 1) : IsMovePacket(packetLog[k])
         /\ packetLog[i].data[2] \notin 1..18)
        => MoveEvents(packetLog[i].emitted) = <<>>

\* C19: when every packet so far is a well-formed move packet and each came
\* 300 ms after the one before, each packet emitted exactly one move event,
\* with the table's notation for its code and confidence 1.0.
C19_OneMovePerPacketInOrder ==
    (/\ \A i \in DOMAIN packetLog :
            IsMovePacket(packetLog[i]) /\ packetLog[i].data[2] \in 1..18
     /\ \A i \in 2..Len(packetLog) : packetLog[i].at - packetLog[i - 1].at = 300)
    => \A i \in DOMAIN packetLog :
           LET moves == MoveEvents(packetLog[i].emitted)
           IN  /\ Len(moves) = 1
               /\ moves[1].data.move = moveMap[packetLog[i].data[2]]
               /\ "confidence" \in DOMAIN moves[1].data
               /\ moves[1].data.confidence = 100

\* a list of tokens holds the tokens of a pattern, in order and adjacent
ContainsTokens(tokens, pattern) ==
    \E i \in 0..(Len(tokens) - Len(pattern)) :
        SubSeq(tokens, i + 1, i + Len(pattern)) = pattern

\* C20: a segment whose moves are exactly the tokens of an OLL table entry is
\* labelled with that entry's name; a segment that holds no pattern of the OLL
\* table is labelled 'Unknown OLL', and one that holds none of the PLL table
\* 'Unknown PLL'.
C20_ExactPatternGetsItsName ==
    phOut.done =>
        /\ \A k \in DOMAIN ollPatterns :
               Notations(phIn) = ollPatterns[k].patterns[1]
                   => phOut.phases.oll.algorithm = ollPatterns[k].name
        /\ (\A k \in DOMAIN ollPatterns :
                ~ContainsTokens(Notations(phIn), ollPatterns[k].patterns[1]))
               => phOut.phases.oll.algorithm = "Unknown OLL"
        /\ (\A k \in DOMAIN pllPatterns :
                ~ContainsTokens(Notations(phIn), pllPatterns[k].patterns[1]))
               => phOut.phases.pll.algorithm = "Unknown PLL"

C22_AtMostOneTimeoutPending ==
    /\ [](/\ Cardinality(timeouts) <= 1
          /\ \A x \in timeouts : x.id = app.scrambleTimeout)
    /\ [][/\ (last'.op = "moveData" /\ Lifecycle(app) \in {"Solved", "Scrambling"}) =>
                 /\ timeouts' = {[id |-> app'.scrambleTimeout, due |-> now + ScrambleDelay]}
                 /\ \A x \in timeouts : x.id # app'.scrambleTimeout
          /\ last'.op = "scrambleTimeout" =>
                 /\ timeouts = {[id |-> app.scrambleTimeout,
                                 due |-> app.lastMoveTime + ScrambleDelay]}
                 /\ timeouts' = {}]_vars

\* C22 witness: a second scramble move, later than the first, has replaced the
\* timeout the first one scheduled
C22_Witness ==
    /\ last.op = "moveData"
    /\ last.from.lifecycle = "Scrambling"
    /\ app.movesSinceScramble = 2
    /\ now > app.scrambleStartTime
    /\ timeouts = {[id |-> app.scrambleTimeout, due |-> now + ScrambleDelay]}

\* C23: ReadyForInspection is entered only from Scrambling, by the timeout, when
\* at least 15 s have passed since the last move; a move in Scrambling keeps
\* the lifecycle Scrambling and leaves the timeout due 15 s after that move.
C23_InspectionAfterFullSilence ==
    [][/\ (Lifecycle(app') = "ReadyForInspection"
               /\ Lifecycle(app) # "ReadyForInspection") =>
              /\ last'.op = "scrambleTimeout"
              /\ Lifecycle(app) = "Scrambling"
              /\ now - app.lastMoveTime >= ScrambleDelay
       /\ (last'.op = "moveData" /\ Lifecycle(app) = "Scrambling") =>
              /\ Lifecycle(app') = "Scrambling"
              /\ app'.lastMoveTime = now
              /\ \A x \in timeouts' : x.due = now + ScrambleDelay
              /\ timeouts' # {}]_vars

\* C23 witness: the timeout fired 15 s after the second scramble move, which
\* came later than the first
C23_Witness ==
    /\ last.op = "scrambleTimeout"
    /\ last.from.lifecycle = "Scrambling"
    /\ Lifecycle(app) = "ReadyForInspection"
    /\ app.movesSinceScramble = 2
    /\ app.lastMoveTime > app.scrambleStartTime
    /\ now = app.lastMoveTime + ScrambleDelay

\* C24: the move that takes the lifecycle from ReadyForInspection to Solving
\* leaves the timer running (started at that instant when it was not running
\* before) and is the only element of the recorded move list and of the
\* current solve's move list; a move arriving in Solved or Scrambling changes
\* no move list; a move arriving in Solving while the solve is in progress is
\* appended at the end of both lists, the earlier elements staying in place.
C24_FirstSolveMoveOpensTheList ==
    [][/\ (last'.op = "moveData" /\ Lifecycle(app) = "ReadyForInspection") =>
              /\ Lifecycle(app') = "Solving"
              /\ timer'.isRunning /\ solveParser'.isRecording
              /\ ~timer.isRunning =>
                     /\ timer'.startTime = now
                     /\ solveParser'.startTime = now
                     /\ solveParser'.objs[solveParser'.currentSolve].startTime = now
              /\ solveParser'.moves = <<MoveOf(solveParser', last'.value)>>
              /\ solveParser'.objs[solveParser'.currentSolve].moves
                     = solveParser'.moves
       /\ (last'.op = "moveData" /\ Lifecycle(app) \in {"Solved", "Scrambling"}) =>
              /\ solveParser'.moves = solveParser.moves
              /\ solveParser'.objs = solveParser.objs
       /\ (last'.op = "moveData" /\ Lifecycle(app) = "Solving"
               /\ app.solveStarted) =>
              /\ solveParser'.moves
                     = Append(solveParser.moves, MoveOf(solveParser, last'.value))
              /\ solveParser'.objs[solveParser'.currentSolve].moves
                     = solveParser'.moves
              /\ solveParser'.currentSolve = solveParser.currentSolve]_vars

\* C24 witness: after two scramble moves and the inspection, the solve's list
\* holds exactly the move that started the timer followed by a later move
C24_Witness ==
    /\ last.op = "moveData" /\ last.from.lifecycle = "Solving"
    /\ app.movesSinceScramble = 2
    /\ Len(solveParser.moves) = 2
    /\ solveParser.moves[1].timestamp = timer.startTime
    /\ solveParser.moves[1].relativeTime = 0
    /\ solveParser.moves[2].timestamp = now
    /\ solveParser.moves[2].relativeTime > 0
    /\ solveParser.objs[solveParser.currentSolve].moves = solveParser.moves

\* C25: a packet the classifier rejects leaves its last-accepted time and its
\* last-accepted bytes unchanged, and a packet arriving at least 200 ms after
\* the last accepted packet is not rejected by the rate rule, whatever rejected
\* packets arrived in between.
C25_WindowFromLastAccepted ==
    [][(Len(packetLog') = Len(packetLog) + 1
            /\ packetLog'[Len(packetLog')].driver = "gan") =>
           LET e == packetLog'[Len(packetLog')]
               accepted == {i \in DOMAIN packetLog :
                                packetLog[i].driver = "gan" /\ packetLog[i].couldBeMove}
           IN  /\ ~e.couldBeMove =>
                      /\ gan'.lastDataTime = gan.lastDataTime
                      /\ gan'.lastDataBytes = gan.lastDataBytes
               /\ (accepted # {} /\ \A i \in accepted : e.at - packetLog[i].at >= 200) =>
                      ~(Truthy(gan.lastDataTime) /\ e.at - gan.lastDataTime < 200)]_vars

\* the events of one packet that come from the differential decoder: the only
\* moveData events that carry a confidence
DifferentialMoves(emitted) ==
    SelectSeq(emitted, LAMBDA e : e.event = "moveData" /\ "confidence" \in DOMAIN e.data)

\* C26: the differential decoder emits a move for a packet only if the packet
\* differs from the stored packet and at least 300 ms have passed since the
\* stored packet was stored, and the emitting packet replaces the stored one;
\* a packet equal to the stored packet emits nothing; with no stored packet
\* nothing is emitted and an accepted 20-byte packet becomes the baseline; a
\* changed packet that comes no later than 300 ms after the stored one emits
\* nothing and leaves the stored packet as it is.
C26_DifferentialDecoderGuards ==
    [][(Len(packetLog') = Len(packetLog) + 1
            /\ packetLog'[Len(packetLog')].driver = "gan") =>
           LET e == packetLog'[Len(packetLog')]
               stored == gan.lastMovePacket
               emits == DifferentialMoves(e.emitted) # <<>>
               current == [data |-> e.data, timestamp |-> e.at]
           IN  /\ emits =>
                      /\ stored # NoPacket
                      /\ e.data # stored.data
                      /\ e.at - stored.timestamp >= 300
                      /\ gan'.lastMovePacket = current
               /\ (stored # NoPacket /\ e.data = stored.data) =>
                      (~emits /\ gan'.lastMovePacket = stored)
               /\ stored = NoPacket =>
                      /\ ~emits
                      /\ gan'.lastMovePacket
                             = IF e.couldBeMove /\ Len(e.data) = 20 THEN current
                               ELSE NoPacket
               /\ (stored # NoPacket /\ e.data # stored.data
                       /\ e.at - stored.timestamp <= 300) =>
                      (~emits /\ gan'.lastMovePacket = stored)]_vars

\* C26 witness: the baseline packet, a changed packet 250 ms later that was
\* accepted by the classifier but emitted nothing and left the baseline in
\* place, and a further changed packet 500 ms after the baseline that emitted
\* a move and replaced it
C26_Witness ==
    /\ Len(packetLog) = 3
    /\ \A i \in 1..3 : packetLog[i].driver = "gan" /\ Len(packetLog[i].data) = 20
                       /\ packetLog[i].couldBeMove
    /\ packetLog[2].data # packetLog[1].data
    /\ packetLog[2].at - packetLog[1].at = 250
    /\ DifferentialMoves(packetLog[2].emitted) = <<>>
    /\ packetLog[3].at - packetLog[1].at = 500
    /\ Len(DifferentialMoves(packetLog[3].emitted)) = 1
    /\ gan.lastMovePacket = [data |-> packetLog[3].data, timestamp |-> packetLog[3].at]

\* the events of one packet that are moves inferred from motion
MotionMoves(e) == SelectSeq(e.emitted, LAMBDA v : v.event = "move")

\* the sample a sensor packet was parsed into
SampleOf(e) == SelectSeq(e.emitted, LAMBDA v : v.event = "accelerometer")[1].data

\* the magnitude of a sample, in thousandths of g
MagnitudeOf(s) == sqrt(s.x * s.x + s.y * s.y + s.z * s.z)

\* C27: a sample after the first emits a motion move exactly when its
\* magnitude differs from the previous sample's by more than 2.0, the gap to
\* the previous sample lies in the closed interval [50 ms, 500 ms], and more
\* than 800 ms have passed since the last emitted motion move (or none was
\* emitted); gaps of exactly 50 ms and 500 ms are eligible.
C27_MotionMoveExactlyWhen ==
    \A i \in DOMAIN packetLog :
        (i > 1 /\ \A k \in 1..i : packetLog[k].driver = "gocube"
                                  /\ identifyPacketType(packetLog[k].data) = "accelerometer") =>
            LET e == packetLog[i]
                p == packetLog[i - 1]
                gap == e.at - p.at
                earlier == {k \in 1..(i - 1) : MotionMoves(packetLog[k]) # <<>>}
            IN  MotionMoves(e) # <<>>
                <=> /\ abs(MagnitudeOf(SampleOf(e)) - MagnitudeOf(SampleOf(p))) > 2000
                    /\ gap >= 50 /\ gap <= 500
                    /\ \A k \in earlier : e.at - packetLog[k].at > 800

\* the names of the real face moves: a face, alone or with ' or 2
FaceMoves ==
    UNION {{f, f \o "'", f \o "2"} : f \in {"U", "D", "R", "L", "F", "B"}}

\* C28: a sample whose largest per-axis change against the previous sample is
\* below 1.5 or is shared by two axes (an ambiguous or small candidate) emits
\* no motion move, and every motion move emitted names a real face move.
C28_AmbiguousCandidateDiscarded ==
    \A i \in DOMAIN packetLog :
        (packetLog[i].driver = "gocube"
             /\ identifyPacketType(packetLog[i].data) = "accelerometer") =>
            /\ \A k \in DOMAIN MotionMoves(packetLog[i]) :
                   MotionMoves(packetLog[i])[k].data.move \in FaceMoves
            /\ (i > 1 /\ identifyPacketType(packetLog[i - 1].data) = "accelerometer") =>
                   LET s == SampleOf(packetLog[i])
                       p == SampleOf(packetLog[i - 1])
                       deltas == <<abs(s.x - p.x), abs(s.y - p.y), abs(s.z - p.z)>>
                       maxDelta == Max(deltas[1], Max(deltas[2], deltas[3]))
                   IN  (maxDelta < 1500
                            \/ Cardinality({a \in 1..3 : deltas[a] = maxDelta}) > 1)
                           => MotionMoves(packetLog[i]) = <<>>

\* C29: for every analysed move list of n moves, if some move among the first
\* 12 is on the U face, the cross segment is exactly the moves before the
\* first such move (empty when the first move is on the U face); otherwise it
\* is the first min(8, n) moves.
C29_CrossBoundary ==
    (phOut.done /\ phIn # <<>>) =>
        LET all == Notations(phIn)
            n == Len(all)
            onU == {i \in 1..Min(n, 12) : startsWithU(all[i])}
            first == CHOOSE i \in onU : \A j \in onU : i <= j
        IN  phOut.phases.cross.moves
                = IF onU # {} THEN SubSeq(all, 1, first - 1)
                  ELSE SubSeq(all, 1, Min(8, n))

\* C30: with the F2L segment starting where the cross segment ends, if the
\* rest of the list holds a run of at least 3 consecutive moves off the U face
\* (whether a U move or the end of the list follows it), the F2L segment ends
\* with the last move of the first such run; otherwise it ends at index
\* min(floor(0.6 n), n - 8), and is empty when that lies before its start.
C30_F2LBoundary ==
    (phOut.done /\ phIn # <<>>) =>
        LET all == Notations(phIn)
            n == Len(all)
            ph == phOut.phases
            start == Len(ph.cross.moves) + 1
            f2l == ph.f2l.pair1.moves \o ph.f2l.pair2.moves
                       \o ph.f2l.pair3.moves \o ph.f2l.pair4.moves
            runs == {r \in (start + 2)..n :
                         /\ \A k \in (r - 2)..r : ~startsWithU(all[k])
                         /\ (r = n \/ startsWithU(all[r + 1]))}
            runEnd == CHOOSE r \in runs : \A q \in runs : r <= q
            fallback == Min((n * 6) \div 10, n - 8) + 1
        IN  f2l = IF runs # {} THEN SubSeq(all, start, runEnd)
                  ELSE SubSeq(all, start, fallback)

\* the F2L segment analyzePhases hands to analyzeF2LPairs for the list phIn
F2LSegment ==
    LET phaseIndex == detectCrossEnd(phIn) + 1
    IN  slice(phIn, phaseIndex, detectF2LEnd(phIn, phaseIndex) + 1)

\* C31: for every F2L segment the four pairs are contiguous slices that cover
\* the segment exactly once in order, pairs 1 to 3 have the same size, and the
\* remainder is in pair 4, which is never smaller than the others.
C31_F2LPairSplit ==
    (phOut.done /\ phIn # <<>>) =>
        LET f2l == phOut.phases.f2l
        IN  /\ f2l.pair1.moves \o f2l.pair2.moves \o f2l.pair3.moves \o f2l.pair4.moves
                   = Notations(F2LSegment)
            /\ Len(f2l.pair1.moves) = Len(f2l.pair2.moves)
            /\ Len(f2l.pair2.moves) = Len(f2l.pair3.moves)
            /\ Len(f2l.pair4.moves) >= Len(f2l.pair3.moves)

\* the index at which analyzePhases starts the OLL segment for the list phIn
OLLStart ==
    LET phaseIndex == detectCrossEnd(phIn) + 1
    IN  detectF2LEnd(phIn, phaseIndex) + 1

\* C32: the OLL segment has at most 15 moves; when the window of 15 moves is
\* cut short by the end of the solve and at least 4 moves follow the F2L
\* boundary, at least 4 moves remain after the OLL segment for PLL; and the
\* OLL segment ends at the first position of the window at which the last
\* three moves are a completion trigger, else at the end of the capped window.
C32_OLLBoundary ==
    (phOut.done /\ phIn # <<>> /\ OLLStart >= 0 /\ OLLStart <= Len(phIn)) =>
        LET n == Len(phIn)
            all == Notations(phIn)
            endIndex == Min(OLLStart + 15, n - 4)
            triggers == {i \in (OLLStart + 3)..(endIndex - 1) :
                             \E k \in 1..Len(endingPatterns) :
                                 <<all[i - 1], all[i], all[i + 1]>> = endingPatterns[k]}
            ollEnd == IF triggers # {}
                      THEN CHOOSE i \in triggers : \A j \in triggers : i <= j
                      ELSE endIndex
        IN  /\ Len(phOut.phases.oll.moves) <= 15
            /\ (n - 4 < OLLStart + 15 /\ n - OLLStart >= 4)
                   => Len(phOut.phases.pll.moves) >= 4
            /\ phOut.phases.oll.moves = Notations(slice(phIn, OLLStart, ollEnd + 1))

\* C33: for every analysed solve of n moves the boundaries analyzePhases
\* computes are ordered and in range:
\* 0 <= crossEnd + 1 <= f2lEnd + 1 <= ollEnd + 1 <= n.
C33_BoundariesOrdered ==
    (phOut.done /\ phIn # <<>>) =>
        LET crossEnd == detectCrossEnd(phIn)
            f2lEnd == detectF2LEnd(phIn, crossEnd + 1)
            ollEnd == detectOLLEnd(phIn, f2lEnd + 1)
        IN  /\ 0 <= crossEnd + 1
            /\ crossEnd + 1 <= f2lEnd + 1
            /\ f2lEnd + 1 <= ollEnd + 1
            /\ ollEnd + 1 <= Len(phIn)

\* C34: in an analysed solve every segment with zero moves has time 0 and
\* move count 0, and an OLL or PLL segment with zero moves has an empty
\* algorithm field.
C34_EmptySegmentHasNoLabel ==
    phOut.done =>
        LET ph == phOut.phases
            plain == {ph.cross, ph.f2l.pair1, ph.f2l.pair2, ph.f2l.pair3, ph.f2l.pair4}
        IN  /\ \A s \in plain : s.moves = <<>> => (s.time = 0 /\ s.moveCount = 0)
            /\ \A s \in {ph.oll, ph.pll} :
                   s.moves = <<>> => (s.time = 0 /\ s.moveCount = 0 /\ s.algorithm = "")

\* C35: after every application-level handler (move, manual start, stop and
\* reset, cubeState signal, solveComplete, disconnect, resetCubeState, the
\* inactivity timeout) the three flags agree:
\* app.solveStarted = timer.isRunning = solveParser.isRecording.
C35_FlagsAgree ==
    /\ app.solveStarted = timer.isRunning
    /\ timer.isRunning = solveParser.isRecording

\* C35 witness: the move after the inspection has started the solve, and the
\* three flags, all false before it, are all true
C35_Witness ==
    /\ last.op = "moveData" /\ last.from.lifecycle = "ReadyForInspection"
    /\ ~last.from.solveStarted /\ ~last.from.running /\ ~last.from.recording
    /\ app.solveStarted /\ timer.isRunning /\ solveParser.isRecording

\* C36: in every state the solve number is 1 plus the length of solveHistory;
\* a step changes either of them only by a stop of the running timer, which
\* appends exactly one solve and adds one to the number; a reset of the timer
\* or of the cube state, a prepareSolve and a stop of a timer that is not
\* running change neither.
C36_CounterIsHistoryPlusOne ==
    /\ [](app.currentSolveNumber = 1 + Len(solveParser.solveHistory))
    /\ [][/\ (app'.currentSolveNumber # app.currentSolveNumber
                  \/ solveParser'.solveHistory # solveParser.solveHistory) =>
                 /\ timer.isRunning /\ ~timer'.isRunning
                 /\ last'.op \in {"stopTimer", "cubeState", "solveComplete", "disconnected"}
                 /\ app'.currentSolveNumber = app.currentSolveNumber + 1
                 /\ Len(solveParser'.solveHistory) = Len(solveParser.solveHistory) + 1
                 /\ SubSeq(solveParser'.solveHistory, 1, Len(solveParser.solveHistory))
                        = solveParser.solveHistory
          /\ (last'.op = "stopTimer" /\ timer.isRunning) =>
                 app'.currentSolveNumber = app.currentSolveNumber + 1
          /\ (last'.op \in {"resetTimer", "resetCubeState"}
                  \/ (last'.op = "stopTimer" /\ ~timer.isRunning)
                  \/ (last'.op = "cubeState" /\ ~last'.value.solved)) =>
                 /\ app'.currentSolveNumber = app.currentSolveNumber
                 /\ solveParser'.solveHistory = solveParser.solveHistory]_vars

\* C36 witness: a stop of the running timer has finalized the first solve
C36_Witness ==
    /\ last.op = "stopTimer" /\ last.from.running /\ last.from.recording
    /\ ~timer.isRunning
    /\ app.currentSolveNumber = 2
    /\ Len(solveParser.solveHistory) = 1

\* C37: the lifecycle encoding is consistent in every state: when cubeState is
\* 'scrambled' exactly one of scrambleInProgress and isWaitingForInspection is
\* true, and when it is 'solved' or 'solving' both are false; cubeState has no
\* other value.
C37_LifecycleEncodingConsistent ==
    /\ app.cubeState \in {"solved", "scrambled", "solving"}
    /\ app.cubeState = "scrambled" =>
           (app.scrambleInProgress # app.isWaitingForInspection)
    /\ app.cubeState \in {"solved", "solving"} =>
           (~app.scrambleInProgress /\ ~app.isWaitingForInspection)

\* C37 witness: the inactivity timeout has turned Scrambling into
\* ReadyForInspection: cubeState is still 'scrambled' and the two flags have
\* swapped
C37_Witness ==
    /\ last.op = "scrambleTimeout" /\ last.from.lifecycle = "Scrambling"
    /\ app.cubeState = "scrambled"
    /\ ~app.scrambleInProgress /\ app.isWaitingForInspection

\* C38: after any sequence of Timer operations the timer holds a tick
\* interval exactly when it is running and not paused, and the browser holds
\* that interval and no other: never more than one.
C38_TickIntervalIffRunning ==
    /\ (timer.intervalId # Null) <=> (timer.isRunning /\ ~timer.isPaused)
    /\ Cardinality(intervals) <= 1
    /\ intervals = IF timer.intervalId # Null THEN {timer.intervalId} ELSE {}

\* C38 witness: a paused timer, which held no interval, has been resumed and
\* holds exactly one
C38_Witness ==
    /\ last.op = "resume" /\ ~last.falsy /\ last.from.running /\ last.from.paused
    /\ timer.isRunning /\ ~timer.isPaused
    /\ timer.intervalId # Null
    /\ intervals = {timer.intervalId}

\* the bytes of the first k notifications, in the order they arrived
RECURSIVE StreamOf(_)
StreamOf(k) == IF k = 0 THEN <<>> ELSE StreamOf(k - 1) \o packetLog[k].data

\* an event without the time it was emitted at
Untimed(e) ==
    [event |-> e.event,
     data |-> [f \in DOMAIN e.data \ {"timestamp"} |-> e.data[f]]]

UntimedAll(es) == [i \in 1..Len(es) |-> Untimed(es[i])]

\* the events of parseDataBuffer among those of one notification
BufferEvents(emitted) ==
    SelectSeq(emitted, LAMBDA e : /\ e.event \in {"cubeState", "moveData", "gyroData"}
                                  /\ "confidence" \notin DOMAIN e.data)

\* what parseDataBuffer emitted in the first k notifications
RECURSIVE ChunkedEvents(_)
ChunkedEvents(k) ==
    IF k = 0 THEN <<>>
    ELSE ChunkedEvents(k - 1) \o UntimedAll(BufferEvents(packetLog[k].emitted))

\* what one parse of the bytes of the first k notifications emits
WholeEvents(k) == UntimedAll(parseLoop(StreamOf(k), 0, 0).emitted)

\* C39: however a byte stream is split across notifications, the cubeState,
\* moveData and gyroData events parseDataBuffer has emitted after each
\* notification are, in order and apart from their timestamps, those one parse
\* of all the bytes received so far emits: a message split across
\* notifications is emitted once, by the notification that brings its last
\* byte
C39_ChunkingIndependent ==
    \A k \in 1..Len(packetLog) : ChunkedEvents(k) = WholeEvents(k)

\* C39 witness: a 0x02 message came in two notifications, the first of them
\* emitted nothing from the buffer and the second emitted the move once
C39_Witness ==
    /\ Len(packetLog) >= 2
    /\ packetLog[1].data = <<2>>
    /\ packetLog[2].data = <<1, 0, 0>>
    /\ BufferEvents(packetLog[1].emitted) = <<>>
    /\ Len(BufferEvents(packetLog[2].emitted)) = 1
    /\ BufferEvents(packetLog[2].emitted)[1].data.move = "U"
    /\ gan.dataBuffer = <<>>

\* the bytes a message with this header byte has
MessageLength(header) ==
    IF header = 1 THEN 6 ELSE IF header = 2 THEN 4 ELSE 12

\* C40: after every notification the buffer is empty, or starts with 0x01,
\* 0x02 or 0x04 and is shorter than the message that header starts (so no
\* longer than 11 bytes), and it is the end of the bytes received that the
\* parse has not consumed: no byte is parsed twice
C40_BufferHoldsOnePartialMessage ==
    /\ \/ gan.dataBuffer = <<>>
       \/ /\ gan.dataBuffer[1] \in {1, 2, 4}
          /\ Len(gan.dataBuffer) < MessageLength(gan.dataBuffer[1])
    /\ Len(gan.dataBuffer) <= 11
    /\ LET stream == StreamOf(Len(packetLog))
           consumed == parseLoop(stream, 0, 0).offset
       IN  gan.dataBuffer = SubSeq(stream, consumed + 1, Len(stream))

\* C40 witness: the first seven bytes of a 0x04 message are kept after a
\* complete 0x02 message before them was consumed
C40_Witness ==
    /\ Len(packetLog) = 3
    /\ packetLog[3].data = <<4, 128, 0, 128, 1, 127, 255>>
    /\ Len(BufferEvents(packetLog[2].emitted)) = 1
    /\ gan.dataBuffer = <<4, 128, 0, 128, 1, 127, 255>>

====
